---- MODULE Spec2Model ----
(***************************************************************************)
(* A model of the publish-quartz preprocessor (src/preprocessor/src):      *)
(* the link resolver (content.rs, find_best_page_match), the bracket-link  *)
(* stage of content::transform, and the query engine (query.rs).           *)
(*                                                                         *)
(* Text is modelled as a sequence of one-character strings.  Rust strings  *)
(* are UTF-8: the code mixes byte lengths (str::len) with character        *)
(* positions (chars().nth), so every character carries its byte width.     *)
(***************************************************************************)
EXTENDS Integers, Sequences, FiniteSets, TLC

VARIABLES
    page_index,   \* the PageIndex (Vec<Page>) the operations read
    pc,           \* which operation has acted: "idle" before any
    link,         \* find_best_page_match: the link text given
    final_link,   \* find_best_page_match: the name returned
    parts,        \* how the transform input was composed (text and link spans)
    content,      \* transform: the input text
    result,       \* transform: the text after the bracket-link stage
    query_ast,    \* how the query text was composed (operator and operands)
    query_str,    \* query::execute: the query text
    results,      \* query::execute: the result, documents as index positions
    query_parts,  \* parse_query_parts: the operands returned
    options,      \* results_to_markdown_with_options: the QueryOptions given
    sorted,       \* results_to_markdown_with_options: the result after the sort
    markdown,     \* results_to_markdown_with_options: the text returned
    config,       \* run_preprocessor: the Config given
    pages_dir,    \* run_preprocessor: the files of pages/, in the order of the walk
    journals_dir, \* run_preprocessor: the files of journals/, None without the directory
    journal_index,\* run_preprocessor: the index built of journals/
    walked,       \* run_preprocessor: how many entries the loop at hand has passed
    tasks,        \* run_preprocessor: where the par_iter closure of each page file is
    seen,         \* the index contents the transforms of the run have read
    published,    \* run_preprocessor: the counter of pages published
    skipped,      \* run_preprocessor: the counter of pages skipped
    processed,    \* process_journals: the entries of read_dir already taken
    count,        \* process_journals: the count of journals published
    stats,        \* run_preprocessor: the Stats
    written       \* the output files written: path, source file and text

vars == <<page_index, pc, link, final_link, parts, content, result,
          query_ast, query_str, results, query_parts, options, sorted, markdown,
          config, pages_dir, journals_dir, journal_index, walked, tasks, seen,
          published, skipped, processed, count, stats, written>>

linkVars  == <<link, final_link, parts, content, result>>
queryVars == <<query_ast, query_str, results, query_parts>>

renderVars == <<options, sorted, markdown>>

runVars == <<config, pages_dir, journals_dir, journal_index, walked, tasks, seen,
             published, skipped, processed, count, stats, written>>

\* no run of the preprocessor: the state of the run, for the operations taken alone
NoRun ==
    /\ config = <<>>
    /\ pages_dir = <<>>
    /\ journals_dir = <<>>
    /\ journal_index = <<>>
    /\ walked = 0
    /\ tasks = <<>>
    /\ seen = {}
    /\ published = 0
    /\ skipped = 0
    /\ processed = {}
    /\ count = 0
    /\ stats = <<>>
    /\ written = {}

(***************************************************************************)
(* Bounds of the model.                                                    *)
(***************************************************************************)
\* the longest page index explored
MaxPages == 2

\* the most results rendered
MaxResults == 4

\* the most properties of a page
MaxProps == 3

\* the most rows after the header of a table block
MaxRows == 3

\* the most pieces of text and spans of a text with dollar signs
MaxPieces == 3

\* the most lines of a text with properties or tasks
MaxLines == 3

\* the most files of a directory
MaxFiles == 2

\* the most files of journals/ explored
MaxJournals == 1

(***************************************************************************)
(* Strings.                                                                *)
(***************************************************************************)
None == <<>>
Some(x) == <<x>>

\* char::to_lowercase for the letters the model uses: A-Z and one two-byte letter
CaseMap ==
    ("A" :> "a") @@ ("B" :> "b") @@ ("C" :> "c") @@ ("D" :> "d") @@
    ("E" :> "e") @@ ("F" :> "f") @@ ("G" :> "g") @@ ("H" :> "h") @@
    ("I" :> "i") @@ ("J" :> "j") @@ ("K" :> "k") @@ ("L" :> "l") @@
    ("M" :> "m") @@ ("N" :> "n") @@ ("O" :> "o") @@ ("P" :> "p") @@
    ("Q" :> "q") @@ ("R" :> "r") @@ ("S" :> "s") @@ ("T" :> "t") @@
    ("U" :> "u") @@ ("V" :> "v") @@ ("W" :> "w") @@ ("X" :> "x") @@
    ("Y" :> "y") @@ ("Z" :> "z") @@ ("É" :> "é")

ToLowerChar(c) == IF c \in DOMAIN CaseMap THEN CaseMap[c] ELSE c

\* str::to_lowercase
to_lowercase(s) == [i \in 1..Len(s) |-> ToLowerChar(s[i])]

\* the characters whose UTF-8 encoding takes two bytes
TwoByteChars == {"é", "É"}

ByteWidth(c) == IF c \in TwoByteChars THEN 2 ELSE 1

\* str::len: the length in bytes
byte_len(s) == Len(s) + Cardinality({ i \in 1..Len(s) : ByteWidth(s[i]) = 2 })

\* str::replace(from, to) for single characters
replace(s, from, to) == [i \in 1..Len(s) |-> IF s[i] = from THEN to ELSE s[i]]

\* str::starts_with
starts_with(s, p) == Len(p) <= Len(s) /\ SubSeq(s, 1, Len(p)) = p

\* str::ends_with
ends_with(s, p) == Len(p) <= Len(s) /\ SubSeq(s, Len(s) - Len(p) + 1, Len(s)) = p

\* starts_with at a position: p stands in s at index i
at(s, i, p) == i >= 1 /\ i + Len(p) - 1 <= Len(s) /\ SubSeq(s, i, i + Len(p) - 1) = p

\* s from index i to the end
from(s, i) == SubSeq(s, i, Len(s))

\* str::contains for a single character
contains_char(s, c) == \E i \in 1..Len(s) : s[i] = c

\* str::find for a single character: the first index, 0 when absent
RECURSIVE find_char(_, _, _)
find_char(s, c, i) ==
    IF i > Len(s) THEN 0
    ELSE IF s[i] = c THEN i
    ELSE find_char(s, c, i + 1)

\* chars().nth(n): the character at 0-based character index n
chars_nth(s, n) == IF n + 1 <= Len(s) THEN Some(s[n + 1]) ELSE None

\* char::is_whitespace and the regex class \s, for the characters the model uses
WhiteSpace == {" ", "\n", "\t"}

(***************************************************************************)
(* content.rs: find_best_page_match.                                       *)
(***************************************************************************)
\* replace(' ', "-").replace('_', "-")
dash_normalized(s) == replace(replace(s, " ", "-"), "_", "-")

\* replace('-', " ").replace('_', " ")
space_normalized(s) == replace(replace(s, "-", " "), "_", " ")

\* 1. the loop over the pages looking for an exact page name
RECURSIVE exact_name_loop(_, _, _)
exact_name_loop(link_in, idx, i) ==
    IF i > Len(idx) THEN FALSE
    ELSE
        LET link_lower == to_lowercase(link_in)
            link_normalized == dash_normalized(link_lower)
            page_name == to_lowercase(idx[i].name)
            page_normalized == dash_normalized(page_name)
        IN  IF page_name = link_lower \/ page_normalized = link_normalized
            THEN TRUE
            ELSE exact_name_loop(link_in, idx, i + 1)

\* the inner loop of 2: does an alias of this page match
RECURSIVE alias_list_matches(_, _, _)
alias_list_matches(link_in, aliases, j) ==
    IF j > Len(aliases) THEN FALSE
    ELSE
        LET link_lower == to_lowercase(link_in)
            link_normalized == dash_normalized(link_lower)
            alias_lower == to_lowercase(aliases[j])
            alias_normalized == dash_normalized(alias_lower)
        IN  IF alias_lower = link_lower \/ alias_normalized = link_normalized
            THEN TRUE
            ELSE alias_list_matches(link_in, aliases, j + 1)

\* 2. the loop over the pages looking for an exact alias: Some(page.name) of the
\* first page with a matching alias
RECURSIVE exact_alias_loop(_, _, _)
exact_alias_loop(link_in, idx, i) ==
    IF i > Len(idx) THEN None
    ELSE IF alias_list_matches(link_in, idx[i].aliases, 1) THEN Some(idx[i].name)
    ELSE exact_alias_loop(link_in, idx, i + 1)

\* the inner loop of 3 over the aliases of one target page; it compares them with
\* the link as written (link_lower), not with the expanded link
RECURSIVE target_alias_matches(_, _, _)
target_alias_matches(link_in, aliases, j) ==
    IF j > Len(aliases) THEN FALSE
    ELSE IF to_lowercase(aliases[j]) = to_lowercase(link_in) THEN TRUE
    ELSE target_alias_matches(link_in, aliases, j + 1)

\* the loop of 3 over the target pages for one expanded link
RECURSIVE target_loop(_, _, _, _)
target_loop(link_in, expanded_link, idx, t) ==
    IF t > Len(idx) THEN None
    ELSE IF to_lowercase(idx[t].name) = to_lowercase(expanded_link)
         THEN Some(idx[t].name)
    ELSE IF target_alias_matches(link_in, idx[t].aliases, 1)
         THEN Some(idx[t].name)
    ELSE target_loop(link_in, expanded_link, idx, t + 1)

\* the loops of 3 over (page, alias): every alias equal to the prefix is expanded
RECURSIVE expansion_loop(_, _, _, _, _, _)
expansion_loop(link_in, prefix, suffix, idx, i, j) ==
    IF i > Len(idx) THEN None
    ELSE IF j > Len(idx[i].aliases)
         THEN expansion_loop(link_in, prefix, suffix, idx, i + 1, 1)
    ELSE IF to_lowercase(idx[i].aliases[j]) = to_lowercase(prefix)
         THEN LET expanded_link == idx[i].name \o <<"/">> \o suffix
                  found == target_loop(link_in, expanded_link, idx, 1)
              IN  IF found # None THEN found
                  ELSE expansion_loop(link_in, prefix, suffix, idx, i, j + 1)
    ELSE expansion_loop(link_in, prefix, suffix, idx, i, j + 1)

\* 3. namespace alias expansion: link.splitn(2, '/')
namespace_expansion(link_in, idx) ==
    IF contains_char(link_in, "/")
    THEN LET cut == find_char(link_in, "/", 1)
             prefix == SubSeq(link_in, 1, cut - 1)
             suffix == from(link_in, cut + 1)
         IN  expansion_loop(link_in, prefix, suffix, idx, 1, 1)
    ELSE None

\* 4. the prefix loop; best is <<best_len, best_match>>, best_match None or Some(name).
\* Lengths are byte lengths; the character after the prefix is read by character
\* position chars().nth(page_words.len())
RECURSIVE prefix_loop(_, _, _, _)
prefix_loop(link_in, idx, i, best) ==
    IF i > Len(idx) THEN best[2]
    ELSE
        LET link_words == space_normalized(to_lowercase(link_in))
            page_words == space_normalized(to_lowercase(idx[i].name))
        IN  IF /\ byte_len(link_words) > byte_len(page_words)
               /\ starts_with(link_words, page_words)
               /\ chars_nth(link_words, byte_len(page_words)) = Some(" ")
               /\ byte_len(page_words) > best[1]
            THEN prefix_loop(link_in, idx, i + 1,
                             <<byte_len(page_words), Some(idx[i].name)>>)
            ELSE prefix_loop(link_in, idx, i + 1, best)

prefix_match(link_in, idx) == prefix_loop(link_in, idx, 1, <<0, None>>)

\* a resolver that tries the aliases before the page names
find_best_page_match_alias_first(link_in, idx) ==
    IF exact_alias_loop(link_in, idx, 1) # None
    THEN exact_alias_loop(link_in, idx, 1)[1]
    ELSE IF exact_name_loop(link_in, idx, 1) THEN link_in
    ELSE IF namespace_expansion(link_in, idx) # None
    THEN namespace_expansion(link_in, idx)[1]
    ELSE IF prefix_match(link_in, idx) # None THEN prefix_match(link_in, idx)[1]
    ELSE link_in

\* a resolver that tries the prefix match before the aliases
find_best_page_match_prefix_first(link_in, idx) ==
    IF exact_name_loop(link_in, idx, 1) THEN link_in
    ELSE IF prefix_match(link_in, idx) # None THEN prefix_match(link_in, idx)[1]
    ELSE IF exact_alias_loop(link_in, idx, 1) # None
    THEN exact_alias_loop(link_in, idx, 1)[1]
    ELSE IF namespace_expansion(link_in, idx) # None
    THEN namespace_expansion(link_in, idx)[1]
    ELSE link_in

\* a resolver whose alias comparison is case-sensitive
RECURSIVE exact_alias_loop_cased(_, _, _)
exact_alias_loop_cased(link_in, idx, i) ==
    IF i > Len(idx) THEN None
    ELSE IF \E j \in 1..Len(idx[i].aliases) : idx[i].aliases[j] = link_in
         THEN Some(idx[i].name)
    ELSE exact_alias_loop_cased(link_in, idx, i + 1)

find_best_page_match_cased_alias(link_in, idx) ==
    IF exact_name_loop(link_in, idx, 1) THEN link_in
    ELSE IF exact_alias_loop_cased(link_in, idx, 1) # None
    THEN exact_alias_loop_cased(link_in, idx, 1)[1]
    ELSE IF namespace_expansion(link_in, idx) # None
    THEN namespace_expansion(link_in, idx)[1]
    ELSE IF prefix_match(link_in, idx) # None THEN prefix_match(link_in, idx)[1]
    ELSE link_in

find_best_page_match(link_in, idx) ==
    IF exact_name_loop(link_in, idx, 1) THEN link_in
    ELSE IF exact_alias_loop(link_in, idx, 1) # None
    THEN exact_alias_loop(link_in, idx, 1)[1]
    ELSE IF namespace_expansion(link_in, idx) # None
    THEN namespace_expansion(link_in, idx)[1]
    ELSE IF prefix_match(link_in, idx) # None THEN prefix_match(link_in, idx)[1]
    ELSE link_in

(***************************************************************************)
(* content.rs: the bracket-link stage of transform (WIKILINK_RE).          *)
(***************************************************************************)
\* the index after the longest run, starting at i, of characters outside stop
RECURSIVE run_end(_, _, _)
run_end(s, i, stop) ==
    IF i > Len(s) \/ s[i] \in stop THEN i ELSE run_end(s, i + 1, stop)

\* the index after the longest run of whitespace starting at i
RECURSIVE skip_whitespace(_, _)
skip_whitespace(s, i) ==
    IF i > Len(s) \/ s[i] \notin WhiteSpace THEN i ELSE skip_whitespace(s, i + 1)

NoMatch == [ok |-> FALSE]

\* WIKILINK_RE = (!\s*)?\[\[([^\]|]+)(\|[^\]]*)?\]\] matched at index i of s:
\* the three capture groups and the index after the match
WIKILINK_RE_at(s, i) ==
    LET open == IF i <= Len(s) /\ s[i] = "!" THEN skip_whitespace(s, i + 1) ELSE i
        embed == SubSeq(s, i, open - 1)
        link_end == run_end(s, open + 2, {"]", "|"})
        link_text == SubSeq(s, open + 2, link_end - 1)
        has_alias == link_end <= Len(s) /\ s[link_end] = "|"
        alias_end == IF has_alias THEN run_end(s, link_end + 1, {"]"}) ELSE link_end
        alias == SubSeq(s, link_end, alias_end - 1)
    IN  IF at(s, open, <<"[", "[">>) /\ link_text # <<>> /\ at(s, alias_end, <<"]", "]">>)
        THEN [ok |-> TRUE, embed |-> embed, link |-> link_text, alias |-> alias,
              end |-> alias_end + 2]
        ELSE NoMatch

PagesPrefix == <<"p", "a", "g", "e", "s", "/">>

\* a replacement that drops the display alias the link was written with
wikilink_replacement_drops_alias(embed, link_text, alias, idx) ==
    LET clean_link == IF starts_with(link_text, PagesPrefix)
                      THEN from(link_text, Len(PagesPrefix) + 1)
                      ELSE link_text
        resolved == find_best_page_match(clean_link, idx)
    IN  IF resolved # clean_link
        THEN embed \o <<"[", "[">> \o resolved \o <<"|">> \o clean_link \o <<"]", "]">>
        ELSE embed \o <<"[", "[">> \o resolved \o alias \o <<"]", "]">>

\* the replacement closure of the bracket-link stage
wikilink_replacement(embed, link_text, alias, idx) ==
    LET clean_link == IF starts_with(link_text, PagesPrefix)
                      THEN from(link_text, Len(PagesPrefix) + 1)
                      ELSE link_text
        resolved == find_best_page_match(clean_link, idx)
    IN  IF resolved # clean_link /\ alias = <<>>
        THEN embed \o <<"[", "[">> \o resolved \o <<"|">> \o clean_link \o <<"]", "]">>
        ELSE embed \o <<"[", "[">> \o resolved \o alias \o <<"]", "]">>

\* WIKILINK_RE.replace_all: leftmost matches, left to right, not overlapping
RECURSIVE replace_all_wikilinks(_, _, _)
replace_all_wikilinks(s, i, idx) ==
    IF i > Len(s) THEN <<>>
    ELSE LET m == WIKILINK_RE_at(s, i)
         IN  IF m.ok
             THEN wikilink_replacement(m.embed, m.link, m.alias, idx)
                      \o replace_all_wikilinks(s, m.end, idx)
             ELSE <<s[i]>> \o replace_all_wikilinks(s, i + 1, idx)

transform_wikilinks(text, idx) == replace_all_wikilinks(text, 1, idx)

(***************************************************************************)
(* The documents and inputs explored.  A Page carries the fields the       *)
(* operations read: name, aliases, tags, content.                          *)
(***************************************************************************)
Page(name, aliases, tags, body) ==
    [name |-> name, aliases |-> aliases, tags |-> tags, content |-> body,
     properties |-> <<>>, namespace |-> None, created |-> None, modified |-> None]

\* the page with the property map props: pairs <<key, value>>, each key once
with_properties(p, props) == [p EXCEPT !.properties = props]

\* the page in the namespace ns
with_namespace(p, ns) == [p EXCEPT !.namespace = Some(ns)]

\* every sequence of at most n distinct elements of S
SeqsNoRep(S, n) ==
    UNION { { s \in [1..k -> S] : \A a, b \in 1..k : a # b => s[a] # s[b] } : k \in 0..n }

n_cv       == <<"c", "v">>
n_CyVa     == <<"C", "y", " ", "V", "a">>
n_cy       == <<"c", "y">>
n_cy_va    == <<"c", "y", "-", "v", "a">>
n_CyVa_di  == <<"C", "y", " ", "V", "a", "/", "d", "i">>
n_hub      == <<"h", "u", "b">>
n_e        == <<"é">>
n_pages_cv == <<"p", "a", "g", "e", "s", "/", "c", "v">>

LinkDocs ==
    { Page(n_cv, <<>>, <<>>, <<>>),
      Page(n_CyVa, << <<"C", "V">> >>, <<>>, <<>>),
      Page(n_cy, <<>>, <<>>, <<>>),
      Page(n_cy_va, << <<"c", "v">> >>, <<>>, <<>>),
      Page(n_CyVa_di, <<>>, <<>>, <<>>),
      Page(n_hub, << <<"c", "y", " ", "v", "a", "/", "d", "i">>,
                     <<"c", "y", " ", "e", "s">> >>, <<>>, <<>>),
      Page(n_e, <<>>, <<>>, <<>>),
      Page(n_pages_cv, <<>>, <<>>, <<>>) }

LinkIndexes == SeqsNoRep(LinkDocs, MaxPages)

LinkTexts ==
    { p.name : p \in LinkDocs } \cup
    { <<"C", "v">>,
      <<"c", "v", "/", "d", "i">>,
      <<"c", "y", " ", "e", "s">>,
      <<"c", "y", " ", "v", "a", " ", "e", "s">>,
      <<"c", "y", "_", "v", "a">>,
      <<"é", " ", "b">>,
      <<"é", "a", " ", "b">>,
      <<"z", "z">> }

TextPart(t) == [kind |-> "text", text |-> t, embed |-> <<>>, link |-> <<>>, alias |-> <<>>]
LinkPart(e, l, a) == [kind |-> "link", text |-> <<>>, embed |-> e, link |-> l, alias |-> a]

\* the embed marker and display alias a link is written with
LinkShapes ==
    { <<<<>>, <<>>>>,
      <<<<>>, <<"|", "x">>>>,
      <<<<"!">>, <<>>>>,
      <<<<"!", " ">>, <<"|">>>> }

\* the texts given to transform: one link alone, one link inside a bullet line,
\* two links on one line
ContentShapes ==
    { << LinkPart(sh[1], l, sh[2]) >> : l \in LinkTexts, sh \in LinkShapes } \cup
    { << TextPart(<<"-", " ">>), LinkPart(sh[1], l, sh[2]), TextPart(<<" ", "b">>) >> :
          l \in LinkTexts, sh \in LinkShapes } \cup
    { << LinkPart(<<>>, l, <<>>), TextPart(<<" ">>), LinkPart(<<>>, n_cv, <<"|", "x">>) >> :
          l \in LinkTexts }

\* the text a part stands for
part_text(p) ==
    IF p.kind = "text" THEN p.text
    ELSE p.embed \o <<"[", "[">> \o p.link \o p.alias \o <<"]", "]">>

RECURSIVE render(_)
render(ps) == IF ps = <<>> THEN <<>> ELSE part_text(Head(ps)) \o render(Tail(ps))

(***************************************************************************)
(* The link specification: an index is given, then the resolver is called  *)
(* on a link text, or transform's bracket-link stage on a text.            *)
(***************************************************************************)
InitLink ==
    /\ page_index \in LinkIndexes
    /\ pc = "idle"
    /\ link = <<>>
    /\ final_link = <<>>
    /\ parts = <<>>
    /\ content = <<>>
    /\ result = <<>>
    /\ query_ast = <<>>
    /\ query_str = <<>>
    /\ results = <<>>
    /\ query_parts = <<>>
    /\ options = <<>>
    /\ sorted = <<>>
    /\ markdown = <<>>
    /\ NoRun

Resolve(l) ==
    /\ pc = "idle"
    /\ link' = l
    /\ final_link' = find_best_page_match(l, page_index)
    /\ pc' = "resolved"
    /\ UNCHANGED <<page_index, parts, content, result, queryVars, renderVars, runVars>>

Transform(ps) ==
    /\ pc = "idle"
    /\ parts' = ps
    /\ content' = render(ps)
    /\ result' = transform_wikilinks(render(ps), page_index)
    /\ pc' = "transformed"
    /\ UNCHANGED <<page_index, link, final_link, queryVars, renderVars, runVars>>

NextLink ==
    \/ \E l \in LinkTexts : Resolve(l)
    \/ \E ps \in ContentShapes : Transform(ps)

SpecLink == InitLink /\ [][NextLink]_vars

(***************************************************************************)
(* The link resolver's strategies, stated over the whole index.            *)
(***************************************************************************)
\* the link names the page: equal ignoring case, or equal once ' ' and '_' are '-'
NameMatch(l, p) ==
    \/ to_lowercase(p.name) = to_lowercase(l)
    \/ dash_normalized(to_lowercase(p.name)) = dash_normalized(to_lowercase(l))

\* the link is one of the page's aliases, compared the same way
AliasMatch(l, p) ==
    \E j \in DOMAIN p.aliases :
        \/ to_lowercase(p.aliases[j]) = to_lowercase(l)
        \/ dash_normalized(to_lowercase(p.aliases[j])) = dash_normalized(to_lowercase(l))

NameMatches(l, idx) == { i \in DOMAIN idx : NameMatch(l, idx[i]) }
AliasMatches(l, idx) == { i \in DOMAIN idx : AliasMatch(l, idx[i]) }

\* the least element of a non-empty set of index positions
First(S) == CHOOSE i \in S : \A k \in S : i <= k

HasSlash(l) == \E i \in DOMAIN l : l[i] = "/"
SlashAt(l) == First({ i \in DOMAIN l : l[i] = "/" })
LinkPrefix(l) == SubSeq(l, 1, SlashAt(l) - 1)
LinkSuffix(l) == SubSeq(l, SlashAt(l) + 1, Len(l))

\* the pages an alias of which is the link's prefix, ignoring case
PrefixOwners(l, idx) ==
    IF HasSlash(l)
    THEN { i \in DOMAIN idx : \E j \in DOMAIN idx[i].aliases :
               to_lowercase(idx[i].aliases[j]) = to_lowercase(LinkPrefix(l)) }
    ELSE {}

\* the link with its prefix replaced by the name of page i
Expanded(l, idx, i) == idx[i].name \o <<"/">> \o LinkSuffix(l)

\* the pages named, ignoring case, by an expansion of the link
ExpansionTargets(l, idx) ==
    { t \in DOMAIN idx : \E i \in PrefixOwners(l, idx) :
          to_lowercase(idx[t].name) = to_lowercase(Expanded(l, idx, i)) }

\* the page's name, space-normalized and lowercased, followed by a space, starts
\* the link text, space-normalized and lowercased
WordPrefix(l, p) ==
    starts_with(space_normalized(to_lowercase(l)),
                space_normalized(to_lowercase(p.name)) \o <<" ">>)

WordPrefixes(l, idx) == { i \in DOMAIN idx : WordPrefix(l, idx[i]) }

\* the earliest of the longest word-prefix pages
LongestWordPrefix(l, idx) ==
    First({ i \in WordPrefixes(l, idx) :
              \A k \in WordPrefixes(l, idx) : Len(idx[k].name) <= Len(idx[i].name) })

IsAscii(s) == \A i \in DOMAIN s : s[i] \notin TwoByteChars

\* the link parts of the transform input
LinkParts == { k \in DOMAIN parts : parts[k].kind = "link" }

CleanLink(l) == IF starts_with(l, PagesPrefix) THEN from(l, Len(PagesPrefix) + 1) ELSE l

IndexNames == { page_index[i].name : i \in DOMAIN page_index }

\* every link of the input is [[D.name]], written without display alias, for a
\* document D of the index
AllLinksAreNames ==
    /\ LinkParts # {}
    /\ \A k \in LinkParts : parts[k].alias = <<>> /\ parts[k].link \in IndexNames

(***************************************************************************)
(* C1.                                                                     *)
(***************************************************************************)
\* C1 as stated: resolving D.name returns D.name for every document D of the index,
\* and the link stage leaves a text whose links are all [[D.name]] as it is
C1_NameLinkUnchanged ==
    /\ (pc = "resolved" /\ link \in IndexNames) => final_link = link
    /\ (pc = "transformed" /\ AllLinksAreNames) => result = content

\* C1 amended: resolving D.name returns D.name for every document D of the index;
\* the link stage leaves a text whose links are all [[D.name]] as it is when no such
\* name begins with "pages/" (that prefix is cut from the link before it is resolved)
C1_NameLinkUnchangedUnlessPagesPrefix ==
    /\ (pc = "resolved" /\ link \in IndexNames) => final_link = link
    /\ ( /\ pc = "transformed"
         /\ AllLinksAreNames
         /\ \A k \in LinkParts : ~starts_with(parts[k].link, PagesPrefix) )
       => result = content

\* [[D.name]] was transformed while another document declares D.name as an alias
C1_Witness ==
    /\ pc = "transformed"
    /\ AllLinksAreNames
    /\ \E k \in LinkParts :
          /\ ~starts_with(parts[k].link, PagesPrefix)
          /\ \E i \in DOMAIN page_index :
                /\ page_index[i].name # parts[k].link
                /\ AliasMatch(parts[k].link, page_index[i])
    /\ result = content

(***************************************************************************)
(* C2.                                                                     *)
(***************************************************************************)
\* C2: the strategies decide in the order exact name, exact alias, namespace
\* expansion, prefix: a name match returns the link as written; with no name match
\* an alias match returns the first alias owner; with neither, an expansion of the
\* prefix that names a page returns such a page; only with none of the three the
\* result is a word-prefix page or the link itself
C2_StrategyOrder ==
    pc = "resolved" =>
        LET names == NameMatches(link, page_index)
            owners == AliasMatches(link, page_index)
            targets == ExpansionTargets(link, page_index)
        IN  /\ names # {} => final_link = link
            /\ (names = {} /\ owners # {}) =>
                   final_link = page_index[First(owners)].name
            /\ (names = {} /\ owners = {} /\ targets # {}) =>
                   final_link \in { page_index[t].name : t \in targets }
            /\ (names = {} /\ owners = {} /\ targets = {}) =>
                   \/ final_link = link
                   \/ \E i \in DOMAIN page_index :
                         /\ final_link = page_index[i].name
                         /\ starts_with(space_normalized(to_lowercase(link)),
                                        space_normalized(to_lowercase(page_index[i].name)))

\* a link was resolved that is a page's name and another page's alias
C2_Witness ==
    /\ pc = "resolved"
    /\ NameMatches(link, page_index) # {}
    /\ AliasMatches(link, page_index) # {}
    /\ NameMatches(link, page_index) # AliasMatches(link, page_index)
    /\ final_link = link

(***************************************************************************)
(* C3.                                                                     *)
(***************************************************************************)
\* C3: with no name, alias or expansion match, the result is the name of the
\* earliest of the longest pages whose space-normalized lowercased name followed by
\* a space starts the space-normalized lowercased link, and the link itself when
\* there is no such page
C3_LongestPrefixWins ==
    ( /\ pc = "resolved"
      /\ NameMatches(link, page_index) = {}
      /\ AliasMatches(link, page_index) = {}
      /\ ExpansionTargets(link, page_index) = {} )
    => IF WordPrefixes(link, page_index) = {}
       THEN final_link = link
       ELSE final_link = page_index[LongestWordPrefix(link, page_index)].name

\* the same for a link and an index of ASCII text, where a byte is a character
LongestPrefixWinsOnAscii ==
    ( /\ pc = "resolved"
      /\ IsAscii(link)
      /\ \A i \in DOMAIN page_index : IsAscii(page_index[i].name)
      /\ NameMatches(link, page_index) = {}
      /\ AliasMatches(link, page_index) = {}
      /\ ExpansionTargets(link, page_index) = {} )
    => IF WordPrefixes(link, page_index) = {}
       THEN final_link = link
       ELSE final_link = page_index[LongestWordPrefix(link, page_index)].name

(***************************************************************************)
(* C4.                                                                     *)
(***************************************************************************)
\* C4 as stated: with no name match, a link equal up to letter case to an alias of
\* document P resolves to P's name, for every such P
C4_AliasIgnoresCase ==
    (pc = "resolved" /\ NameMatches(link, page_index) = {}) =>
        \A i \in DOMAIN page_index : \A j \in DOMAIN page_index[i].aliases :
            to_lowercase(page_index[i].aliases[j]) = to_lowercase(link)
                => final_link = page_index[i].name

\* C4 amended: with no name match, a link equal up to letter case to an alias of
\* document P resolves to the name, in its original casing, of the first document
\* in index order that has a matching alias: to P's name when P is the only one
C4_AliasIgnoresCaseFirstOwner ==
    (pc = "resolved" /\ NameMatches(link, page_index) = {}) =>
        \A i \in DOMAIN page_index : \A j \in DOMAIN page_index[i].aliases :
            to_lowercase(page_index[i].aliases[j]) = to_lowercase(link)
                => /\ final_link = page_index[First(AliasMatches(link, page_index))].name
                   /\ AliasMatches(link, page_index) = {i}
                         => final_link = page_index[i].name

\* a link was resolved through an alias it equals only up to letter case, to a name
\* with capital letters
C4_Witness ==
    /\ pc = "resolved"
    /\ NameMatches(link, page_index) = {}
    /\ \E i \in DOMAIN page_index :
          /\ \E j \in DOMAIN page_index[i].aliases :
                /\ page_index[i].aliases[j] # link
                /\ to_lowercase(page_index[i].aliases[j]) = to_lowercase(link)
          /\ \A j \in DOMAIN page_index[i].aliases : page_index[i].aliases[j] # link
          /\ final_link = page_index[i].name
          /\ to_lowercase(final_link) # final_link

(***************************************************************************)
(* C5.                                                                     *)
(***************************************************************************)
\* C5: for a link prefix/suffix with no name and no alias match, whose prefix is an
\* alias of a page P, steps 1 and 2 are applied to P.name/suffix: when a page name
\* matches the expanded text the result is such a page, and otherwise, when a page
\* alias matches it, the result is such an alias owner
C5_ExpansionRetriesNameAndAlias ==
    ( /\ pc = "resolved"
      /\ NameMatches(link, page_index) = {}
      /\ AliasMatches(link, page_index) = {}
      /\ PrefixOwners(link, page_index) # {} )
    => LET expansions == { Expanded(link, page_index, i) :
                               i \in PrefixOwners(link, page_index) }
           named == UNION { NameMatches(e, page_index) : e \in expansions }
           aliased == UNION { AliasMatches(e, page_index) : e \in expansions }
       IN  /\ named # {} => final_link \in { page_index[t].name : t \in named }
           /\ (named = {} /\ aliased # {}) =>
                  final_link \in { page_index[t].name : t \in aliased }

\* what the expansion does: it returns a page whose lowercased name equals the
\* lowercased expanded text, and otherwise falls through to the prefix strategy
ExpansionMatchesExactNameOnly ==
    ( /\ pc = "resolved"
      /\ NameMatches(link, page_index) = {}
      /\ AliasMatches(link, page_index) = {}
      /\ PrefixOwners(link, page_index) # {} )
    => IF ExpansionTargets(link, page_index) # {}
       THEN final_link \in { page_index[t].name : t \in ExpansionTargets(link, page_index) }
       ELSE final_link \in {link} \cup IndexNames

(***************************************************************************)
(* C6.                                                                     *)
(***************************************************************************)
\* what a link part becomes
expected_link(p, idx) ==
    LET clean == CleanLink(p.link)
        resolved == find_best_page_match(clean, idx)
    IN  p.embed \o <<"[", "[">> \o resolved \o
        (IF p.alias # <<>> THEN p.alias
         ELSE IF resolved # clean THEN <<"|">> \o clean
         ELSE <<>>)
        \o <<"]", "]">>

RECURSIVE expected_text(_, _)
expected_text(ps, idx) ==
    IF ps = <<>> THEN <<>>
    ELSE (IF Head(ps).kind = "text" THEN Head(ps).text ELSE expected_link(Head(ps), idx))
         \o expected_text(Tail(ps), idx)

\* C6: every bracket-link or embed of the text becomes [[resolved|literal]] when it
\* had no display alias and the resolved name differs from the literal text (after
\* "pages/" is cut), keeps its display alias behind the resolved name when it had one,
\* and gets none when the resolved name is the literal text; the text around the
\* links is kept
C6_DisplayAlias ==
    pc = "transformed" => result = expected_text(parts, page_index)

\* a link with a display alias and a link without, both resolved to another name,
\* were transformed
C6_Witness ==
    /\ pc = "transformed"
    /\ \E k \in LinkParts :
          /\ parts[k].alias # <<>>
          /\ find_best_page_match(CleanLink(parts[k].link), page_index)
                 # CleanLink(parts[k].link)
    /\ \E k \in LinkParts :
          /\ parts[k].alias = <<>>
          /\ find_best_page_match(CleanLink(parts[k].link), page_index)
                 # CleanLink(parts[k].link)

(***************************************************************************)
(* query.rs: the query engine.  A result (Vec<&Page>) is a sequence of     *)
(* positions of the index.                                                 *)
(***************************************************************************)
UpperMap == [c \in { CaseMap[k] : k \in DOMAIN CaseMap } |->
                CHOOSE k \in DOMAIN CaseMap : CaseMap[k] = c]

\* str::to_uppercase
to_uppercase(s) == [i \in 1..Len(s) |-> IF s[i] \in DOMAIN UpperMap THEN UpperMap[s[i]] ELSE s[i]]

\* str::trim_start
trim_start(s) == from(s, skip_whitespace(s, 1))

\* the index before the longest run of whitespace ending at i
RECURSIVE skip_whitespace_back(_, _)
skip_whitespace_back(s, i) ==
    IF i < 1 \/ s[i] \notin WhiteSpace THEN i ELSE skip_whitespace_back(s, i - 1)

\* str::trim_end
trim_end(s) == SubSeq(s, 1, skip_whitespace_back(s, Len(s)))

\* str::trim
trim(s) == trim_end(trim_start(s))

\* str::trim_start_matches(p): the prefix p removed as often as it stands there
RECURSIVE trim_start_matches(_, _)
trim_start_matches(s, p) ==
    IF p # <<>> /\ starts_with(s, p) THEN trim_start_matches(from(s, Len(p) + 1), p) ELSE s

\* str::trim_end_matches(p)
RECURSIVE trim_end_matches(_, _)
trim_end_matches(s, p) ==
    IF p # <<>> /\ ends_with(s, p) THEN trim_end_matches(SubSeq(s, 1, Len(s) - Len(p)), p) ELSE s

\* str::strip_prefix(p).unwrap_or(s)
strip_prefix_or(s, p) == IF starts_with(s, p) THEN from(s, Len(p) + 1) ELSE s

\* str::contains for a string
contains(s, p) == \E i \in 1..(Len(s) + 1) : at(s, i, p)

\* s without the characters of the set cs
remove_chars(s, cs) == SelectSeq(s, LAMBDA c : c \notin cs)

\* str::split_whitespace
RECURSIVE split_whitespace(_)
split_whitespace(s) ==
    LET b == skip_whitespace(s, 1)
        e == run_end(s, b, WhiteSpace)
    IN  IF b > Len(s) THEN <<>>
        ELSE <<SubSeq(s, b, e - 1)>> \o split_whitespace(from(s, e))

\* Vec::contains
vec_contains(v, x) == \E j \in 1..Len(v) : v[j] = x

\* index.iter(): the pages as positions of the index, in index order
index_iter(idx) == [k \in 1..Len(idx) |-> k]

\* the set of names of the pages of a result
names_of(res, idx) == { idx[res[j]].name : j \in 1..Len(res) }

\* Page.name_lower, kept equal to name.to_lowercase() by the index build
name_lower(p) == to_lowercase(p.name)

kw_and == <<"a", "n", "d">>
kw_or == <<"o", "r">>
kw_not == <<"n", "o", "t">>
QueryOpen == <<"{", "{", "q", "u", "e", "r", "y">>
QueryClose == <<"}", "}">>

\* the regexes (?i)^\(KEYWORD\s+\[\[([^\]]+)\]\]\s*\)$ (PAGE_RE, PAGE_TAGS_RE):
\* the capture group of a match
keyword_ref_captures(expr, keyword) ==
    LET head == <<"(">> \o keyword
        ws == Len(head) + 1
        open == skip_whitespace(expr, ws)
        close == run_end(expr, open + 2, {"]"})
        last == skip_whitespace(expr, close + 2)
    IN  IF /\ starts_with(to_lowercase(expr), head)
           /\ open > ws
           /\ at(expr, open, <<"[", "[">>)
           /\ close > open + 2
           /\ at(expr, close, <<"]", "]">>)
           /\ last = Len(expr)
           /\ expr[last] = ")"
        THEN Some(SubSeq(expr, open + 2, close - 1))
        ELSE None

\* the text between "(KEYWORD" and the closing ")" of an expression that has both
keyword_body(expr, keyword) ==
    LET head == <<"(">> \o keyword
    IN  IF /\ starts_with(to_lowercase(expr), head)
           /\ Len(expr) > Len(head)
           /\ expr[Len(expr)] = ")"
        THEN Some(SubSeq(expr, Len(head) + 1, Len(expr) - 1))
        ELSE None

TaskStates == { <<"T", "O", "D", "O">>, <<"D", "O", "N", "E">>, <<"N", "O", "W">>, <<"D", "O", "I", "N", "G">>, <<"L", "A", "T", "E", "R">>, <<"W", "A", "I", "T", "I", "N", "G">>, <<"C", "A", "N", "C", "E", "L", "L", "E", "D">> }

\* TASK_RE = (?i)^\(task\s+((?:TODO|...)(?:\s+(?:TODO|...))*)\s*\)$: the states captured
TASK_RE_captures(expr) ==
    LET body == keyword_body(expr, <<"t", "a", "s", "k">>)
        states == split_whitespace(to_uppercase(body[1]))
    IN  IF /\ body # None
           /\ body[1] # <<>>
           /\ body[1][1] \in WhiteSpace
           /\ states # <<>>
           /\ \A j \in 1..Len(states) : states[j] \in TaskStates
        THEN Some(states)
        ELSE None

\* PRIORITY_RE = (?i)^\(priority\s+([abc])\s*\)$
PRIORITY_RE_captures(expr) ==
    LET body == keyword_body(expr, <<"p", "r", "i", "o", "r", "i", "t", "y">>)
        words == split_whitespace(body[1])
    IN  IF /\ body # None
           /\ body[1] # <<>>
           /\ body[1][1] \in WhiteSpace
           /\ Len(words) = 1
           /\ Len(words[1]) = 1
           /\ ToLowerChar(words[1][1]) \in {"a", "b", "c"}
        THEN Some(words[1])
        ELSE None

\* ALL_PAGE_TAGS_RE = (?i)^\(all-page-tags\s*\)$
ALL_PAGE_TAGS_RE_is_match(expr) ==
    LET body == keyword_body(expr, <<"a", "l", "l", "-", "p", "a", "g", "e", "-", "t", "a", "g", "s">>)
    IN  body # None /\ split_whitespace(body[1]) = <<>>

\* PAGE_REF_RE = ^\[\[([^\]]+)\]\]$
PAGE_REF_RE_captures(expr) ==
    LET close == run_end(expr, 3, {"]"})
    IN  IF /\ at(expr, 1, <<"[", "[">>)
           /\ close > 3
           /\ at(expr, close, <<"]", "]">>)
           /\ close + 1 = Len(expr)
        THEN Some(SubSeq(expr, 3, close - 1))
        ELSE None

\* TEXT_SEARCH_RE = ^"([^"]+)"$
TEXT_SEARCH_RE_captures(expr) ==
    LET close == run_end(expr, 2, {"\""})
    IN  IF /\ at(expr, 1, <<"\"">>)
           /\ close > 2
           /\ close = Len(expr)
        THEN Some(SubSeq(expr, 2, close - 1))
        ELSE None

\* BETWEEN_RE = (?i)^\(between\s+\[\[([^\]]+)\]\]\s+\[\[([^\]]+)\]\]\s*\)$: the two captures
BETWEEN_RE_captures(expr) ==
    LET head == <<"(", "b", "e", "t", "w", "e", "e", "n">>
        ws1 == Len(head) + 1
        open1 == skip_whitespace(expr, ws1)
        close1 == run_end(expr, open1 + 2, {"]"})
        ws2 == close1 + 2
        open2 == skip_whitespace(expr, ws2)
        close2 == run_end(expr, open2 + 2, {"]"})
        last == skip_whitespace(expr, close2 + 2)
    IN  IF /\ starts_with(to_lowercase(expr), head)
           /\ open1 > ws1
           /\ at(expr, open1, <<"[", "[">>)
           /\ close1 > open1 + 2
           /\ at(expr, close1, <<"]", "]">>)
           /\ open2 > ws2
           /\ at(expr, open2, <<"[", "[">>)
           /\ close2 > open2 + 2
           /\ at(expr, close2, <<"]", "]">>)
           /\ last = Len(expr)
           /\ expr[last] = ")"
        THEN Some(<<SubSeq(expr, open1 + 2, close1 - 1), SubSeq(expr, open2 + 2, close2 - 1)>>)
        ELSE None

Digits == {"0", "1", "2", "3", "4", "5", "6", "7", "8", "9"}

\* the regex class \w, for the characters the model uses
WordChars == DOMAIN CaseMap \cup { CaseMap[c] : c \in DOMAIN CaseMap } \cup Digits \cup {"_"}

\* str::trim_matches(c)
trim_matches(s, c) ==
    LET b == run_end(s, 1, { x \in {s[i] : i \in 1..Len(s)} : x # c })
        kept == from(s, b)
        e == CHOOSE j \in 0..Len(kept) :
                 /\ \A i \in (j + 1)..Len(kept) : kept[i] = c
                 /\ (j = 0 \/ kept[j] # c)
    IN  SubSeq(kept, 1, e)

\* PROPERTY_RE =
\*   (?i)^\((?:page-)?property\s+:?(\w+[-\w]*)(?:\s+(?:"([^"]+)"|(\S+)))?\s*\)$:
\* the key captured and the value captured by group 2 or 3, <<>> for no value.
\* PROPERTY_RE_body matches what stands between the keyword and the closing bracket
PROPERTY_RE_body(body) ==
    LET b == skip_whitespace(body, 1)
        e == run_end(body, b, WhiteSpace)
        word == SubSeq(body, b, e - 1)
        key == IF word # <<>> /\ word[1] = ":" THEN Tail(word) ELSE word
        rest == trim(from(body, e))
        quoted == /\ Len(rest) >= 3
                  /\ rest[1] = "\""
                  /\ rest[Len(rest)] = "\""
                  /\ \A i \in 2..(Len(rest) - 1) : rest[i] # "\""
        single == rest # <<>> /\ \A i \in 1..Len(rest) : rest[i] \notin WhiteSpace
    IN  IF /\ b > 1
           /\ key # <<>>
           /\ key[1] \in WordChars
           /\ \A i \in 1..Len(key) : key[i] \in WordChars \cup {"-"}
           /\ (rest = <<>> \/ quoted \/ single)
        THEN Some(<<key, IF rest = <<>> THEN <<>>
                        ELSE IF quoted THEN SubSeq(rest, 2, Len(rest) - 1)
                        ELSE rest>>)
        ELSE None

\* the first of two options that is Some
or_else(a, b) == IF a # None THEN a ELSE b

\* the option mapped by PROPERTY_RE_body
and_then_body(body) == IF body = None THEN None ELSE PROPERTY_RE_body(body[1])

PROPERTY_RE_captures(expr) ==
    and_then_body(or_else(keyword_body(expr, <<"p", "r", "o", "p", "e", "r", "t", "y">>),
                          keyword_body(expr, <<"p", "a", "g", "e", "-", "p", "r", "o", "p", "e", "r", "t", "y">>)))

\* the index after the longest run of characters of the set cs starting at i
RECURSIVE span_end(_, _, _)
span_end(s, i, cs) ==
    IF i > Len(s) \/ s[i] \notin cs THEN i ELSE span_end(s, i + 1, cs)

\* str::parse of a run of decimal digits
RECURSIVE parse_digits(_)
parse_digits(s) ==
    IF s = <<>> THEN 0
    ELSE 10 * parse_digits(SubSeq(s, 1, Len(s) - 1))
         + (CHOOSE v \in 0..9 : <<"0", "1", "2", "3", "4", "5", "6", "7", "8", "9">>[v + 1] = s[Len(s)])

is_leap_year(y) == y % 4 = 0 /\ (y % 100 # 0 \/ y % 400 = 0)

days_in_month(y, m) ==
    IF m = 2 THEN (IF is_leap_year(y) THEN 29 ELSE 28)
    ELSE IF m \in {4, 6, 9, 11} THEN 30 ELSE 31

\* NaiveDate::from_ymd_opt: the date <<y, m, d>> when the calendar has it
from_ymd_opt(y, m, d) ==
    IF /\ y \in (0 - 262143)..262142
       /\ m \in 1..12
       /\ d \in 1..days_in_month(y, m)
    THEN Some(<<y, m, d>>)
    ELSE None

\* the order of NaiveDate
date_le(a, b) ==
    \/ a[1] < b[1]
    \/ a[1] = b[1] /\ a[2] < b[2]
    \/ a[1] = b[1] /\ a[2] = b[2] /\ a[3] <= b[3]

\* NaiveDate::parse_from_str(s, "%Y-%m-%d"): each number after optional whitespace;
\* the year of 1 to 4 digits, or signed with any number of digits; month and day
\* of 1 or 2 digits; nothing after the day.
\* parse_ymd_day is its last step: the day, from d1 on
parse_ymd_day(s, year, month, d1) ==
    LET drun == span_end(s, d1, Digits)
        d2 == IF drun - d1 <= 2 THEN drun ELSE d1 + 2
    IN  IF d2 > d1 /\ d2 = Len(s) + 1
        THEN from_ymd_opt(year, month, parse_digits(SubSeq(s, d1, d2 - 1)))
        ELSE None

\* parse_from_str after the year: the month, from m1 on
parse_ymd_month(s, year, m1) ==
    LET mrun == span_end(s, m1, Digits)
        m2 == IF mrun - m1 <= 2 THEN mrun ELSE m1 + 2
    IN  IF m2 > m1 /\ at(s, m2, <<"-">>)
        THEN parse_ymd_day(s, year, parse_digits(SubSeq(s, m1, m2 - 1)), skip_whitespace(s, m2 + 1))
        ELSE None

\* parse_from_str: the digits of the year, from y1 to before y2
parse_ymd_year(s, negative, y1, y2) ==
    IF y2 > y1 /\ at(s, y2, <<"-">>)
    THEN parse_ymd_month(s,
                         IF negative THEN 0 - parse_digits(SubSeq(s, y1, y2 - 1))
                         ELSE parse_digits(SubSeq(s, y1, y2 - 1)),
                         skip_whitespace(s, y2 + 1))
    ELSE None

\* parse_from_str: the sign of the year, at y0
parse_ymd_sign(s, y0) ==
    LET signed == y0 <= Len(s) /\ s[y0] \in {"+", "-"}
        y1 == IF signed THEN y0 + 1 ELSE y0
        yrun == span_end(s, y1, Digits)
    IN  IF signed
        THEN IF yrun - y1 <= 6 THEN parse_ymd_year(s, s[y0] = "-", y1, yrun) ELSE None
        ELSE parse_ymd_year(s, FALSE, y1, IF yrun - y1 <= 4 THEN yrun ELSE y1 + 4)

parse_from_str(s) == parse_ymd_sign(s, skip_whitespace(s, 1))

MonthNames == <<<<"j", "a", "n">>, <<"f", "e", "b">>, <<"m", "a", "r">>, <<"a", "p", "r">>, <<"m", "a", "y">>, <<"j", "u", "n">>, <<"j", "u", "l">>, <<"a", "u", "g">>, <<"s", "e", "p">>, <<"o", "c", "t">>, <<"n", "o", "v">>, <<"d", "e", "c">>>>

AsciiLetters == (DOMAIN CaseMap \cup { CaseMap[c] : c \in DOMAIN CaseMap }) \ TwoByteChars

\* DATE_RE = (?i)^(jan|...|dec)[a-z]*\s+(\d{1,2})(?:st|nd|rd|th)?,?\s+(\d{4})$:
\* the month, day and year captured.
\* DATE_RE_year is its last step: the year, after the whitespace from w1 on
DATE_RE_year(s, d1, d2, w1) ==
    LET y1 == skip_whitespace(s, w1)
    IN  IF /\ y1 > w1
           /\ y1 + 3 = Len(s)
           /\ \A i \in y1..Len(s) : s[i] \in Digits
        THEN Some(<<to_lowercase(SubSeq(s, 1, 3)), SubSeq(s, d1, d2 - 1), SubSeq(s, y1, Len(s))>>)
        ELSE None

\* DATE_RE after the day: the comma, from c1 on
DATE_RE_comma(s, d1, d2, c1) ==
    DATE_RE_year(s, d1, d2, IF at(s, c1, <<",">>) THEN c1 + 1 ELSE c1)

\* DATE_RE after the digits of the day: st, nd, rd or th
DATE_RE_suffix(s, d1, d2) ==
    DATE_RE_comma(s, d1, d2,
                  IF to_lowercase(SubSeq(s, d2, d2 + 1)) \in {<<"s", "t">>, <<"n", "d">>, <<"r", "d">>, <<"t", "h">>}
                  THEN d2 + 2 ELSE d2)

\* DATE_RE after the month, which ends before m2: the day, from d1 on
DATE_RE_day(s, m2, d1) ==
    LET drun == span_end(s, d1, Digits)
    IN  IF d1 > m2 /\ drun > d1
        THEN DATE_RE_suffix(s, d1, IF drun - d1 <= 2 THEN drun ELSE d1 + 2)
        ELSE None

DATE_RE_captures(s) ==
    LET m2 == span_end(s, 1, AsciiLetters)
    IN  IF m2 > 3 /\ \E k \in 1..12 : MonthNames[k] = to_lowercase(SubSeq(s, 1, 3))
        THEN DATE_RE_day(s, m2, skip_whitespace(s, m2))
        ELSE None

\* parse_date: the ISO date, or else the date of the DATE_RE captures
parse_date_or(iso, caps) ==
    IF iso # None THEN iso
    ELSE IF caps # None
    THEN from_ymd_opt(parse_digits(caps[1][3]),
                      CHOOSE k \in 1..12 : MonthNames[k] = caps[1][1],
                      parse_digits(caps[1][2]))
    ELSE None

\* parse_date
parse_date(date_str) ==
    parse_date_or(parse_from_str(replace(date_str, "_", "-")), DATE_RE_captures(date_str))

JournalsPrefix == <<"j", "o", "u", "r", "n", "a", "l", "s", "/">>

\* HashMap::get: Some(value) of the key, None when the map has no such key
map_get(props, key) ==
    IF \E j \in 1..Len(props) : props[j][1] = key
    THEN Some(props[CHOOSE j \in 1..Len(props) : props[j][1] = key][2])
    ELSE None

\* Option<String>::unwrap_or_default
unwrap_or_default(o) == IF o = None THEN <<>> ELSE o[1]

\* the push of parse_query_parts at a closing ')' : any text that is not empty
push_trimmed(ps, current) ==
    IF trim(current) # <<>> THEN Append(ps, trim(current)) ELSE ps

\* the push of parse_query_parts at a closing ']', at whitespace and at the end:
\* only text that begins with '(' or '['
push_if_expr(ps, current) ==
    IF trim(current) # <<>> /\ trim(current)[1] \in {"(", "["}
    THEN Append(ps, trim(current))
    ELSE ps

\* the body of the loop of parse_query_parts: the match on one character c, on
\* the state st of parts, current, depth and in_brackets
parse_step(st, c) ==
    IF c = "(" THEN
        [st EXCEPT !.current = Append(@, c), !.depth = @ + 1]
    ELSE IF c = ")" THEN
        IF st.depth - 1 = 0
        THEN [st EXCEPT !.parts = push_trimmed(@, Append(st.current, c)),
                        !.current = <<>>, !.depth = 0]
        ELSE [st EXCEPT !.current = Append(@, c), !.depth = @ - 1]
    ELSE IF c = "[" THEN
        [st EXCEPT !.current = Append(@, c), !.in_brackets = @ + 1]
    ELSE IF c = "]" THEN
        IF st.depth = 0 /\ st.in_brackets - 1 = 0
        THEN [st EXCEPT !.parts = push_if_expr(@, Append(st.current, c)),
                        !.current = <<>>, !.in_brackets = 0]
        ELSE [st EXCEPT !.current = Append(@, c), !.in_brackets = @ - 1]
    ELSE IF c \in {" ", "\n", "\t"} /\ st.depth = 0 /\ st.in_brackets = 0 THEN
        [st EXCEPT !.parts = push_if_expr(@, st.current), !.current = <<>>]
    ELSE [st EXCEPT !.current = Append(@, c)]

\* the loop of parse_query_parts over the characters lo..hi of expr, in order:
\* the first half, then the second half from the state h the first half leaves
RECURSIVE parse_loop(_, _, _, _)
parse_loop(expr, lo, hi, st) ==
    IF lo > hi THEN st
    ELSE IF lo = hi THEN parse_step(st, expr[lo])
    ELSE CHOOSE end \in { parse_loop(expr, ((lo + hi) \div 2) + 1, hi, h) :
                              h \in { parse_loop(expr, lo, (lo + hi) \div 2, st) } } : TRUE

parse_query_parts(expr) ==
    LET end == parse_loop(expr, 1, Len(expr),
                          [parts |-> <<>>, current |-> <<>>, depth |-> 0, in_brackets |-> 0])
    IN  push_if_expr(end.parts, end.current)

\* the helper of execute_expr: the text inside (keyword ...)
extract_inner(expr, keyword) ==
    LET lower == to_lowercase(expr)
        after_paren == from(expr, 2)
        after_keyword ==
            IF starts_with(after_paren, keyword)
            THEN Some(from(after_paren, Len(keyword) + 1))
            ELSE IF starts_with(after_paren, to_uppercase(keyword))
            THEN Some(from(after_paren, Len(keyword) + 1))
            ELSE None
        inner == trim_start(after_keyword[1])
    IN  IF starts_with(lower, <<"(">> \o keyword) /\ ends_with(expr, <<")">>)
        THEN IF after_keyword = None THEN None
             ELSE IF ends_with(inner, <<")">>) THEN Some(SubSeq(inner, 1, Len(inner) - 1))
             ELSE None
        ELSE None

\* result.retain(|p| matching_names.contains(&p.name))
retain(res, idx, matching) ==
    SelectSeq(res, LAMBDA k : idx[k].name \in names_of(matching, idx))

\* the inner loop of execute_or: the pages of one operand not seen before
RECURSIVE push_unseen(_, _, _, _)
push_unseen(res, pages, j, idx) ==
    IF j > Len(pages) THEN res
    ELSE IF idx[pages[j]].name \notin names_of(res, idx)
    THEN push_unseen(Append(res, pages[j]), pages, j + 1, idx)
    ELSE push_unseen(res, pages, j + 1, idx)

RECURSIVE execute_expr(_, _)
RECURSIVE and_loop(_, _, _, _)
RECURSIVE or_loop(_, _, _, _)

\* the loop of execute_and over parts[1..]
and_loop(ps, i, res, idx) ==
    IF i > Len(ps) THEN res
    ELSE and_loop(ps, i + 1, retain(res, idx, execute_expr(ps[i], idx)), idx)

execute_and(inner, idx) ==
    LET ps == parse_query_parts(inner)
    IN  IF ps = <<>> THEN <<>>
        ELSE and_loop(ps, 2, execute_expr(ps[1], idx), idx)

\* the loop of execute_or over the parts
or_loop(ps, i, res, idx) ==
    IF i > Len(ps) THEN res
    ELSE or_loop(ps, i + 1, push_unseen(res, execute_expr(ps[i], idx), 1, idx), idx)

execute_or(inner, idx) == or_loop(parse_query_parts(inner), 1, <<>>, idx)

\* the date of a page lies between the two dates, both included
in_date_range(page_date, start, end) ==
    /\ page_date # None
    /\ date_le(start, page_date[1])
    /\ date_le(page_date[1], end)

\* the two dates of the BETWEEN_RE captures: Some(<<start, end>>) when the expression
\* matches and both parse
date_pair(start, end) ==
    IF start # None /\ end # None THEN Some(<<start[1], end[1]>>) ELSE None

between_dates(between) ==
    IF between = None THEN None
    ELSE date_pair(parse_date(between[1][1]), parse_date(between[1][2]))

\* execute_expr, given what each regex captures of the trimmed expression
execute_captures(expr, idx, and_inner, or_inner, not_inner, task, priority, between, namespace, property, page, page_tags, page_ref, text) ==
    LET all_tags == UNION { { idx[k].tags[j] : j \in 1..Len(idx[k].tags) } :
                            k \in 1..Len(idx) }
        search == remove_chars(to_lowercase(expr), {"\"", "'"})
    IN  IF and_inner # None THEN execute_and(and_inner[1], idx)
        ELSE IF or_inner # None THEN execute_or(or_inner[1], idx)
        ELSE IF not_inner # None THEN
            LET excluded == execute_expr(not_inner[1], idx)
            IN  SelectSeq(index_iter(idx), LAMBDA k : idx[k].name \notin names_of(excluded, idx))
        ELSE IF task # None THEN
            SelectSeq(index_iter(idx), LAMBDA k : \E j \in 1..Len(task[1]) :
                \/ contains(idx[k].content, <<"-", " ">> \o task[1][j] \o <<" ">>)
                \/ contains(idx[k].content, <<"\n">> \o task[1][j] \o <<" ">>))
        ELSE IF priority # None THEN
            SelectSeq(index_iter(idx), LAMBDA k :
                contains(idx[k].content, <<"[", "#">> \o to_uppercase(priority[1]) \o <<"]">>))
        ELSE IF between # None THEN
            SelectSeq(index_iter(idx), LAMBDA k :
                in_date_range(parse_date(strip_prefix_or(idx[k].name, JournalsPrefix)),
                              between[1][1], between[1][2]))
        ELSE IF ALL_PAGE_TAGS_RE_is_match(expr) THEN
            SelectSeq(index_iter(idx), LAMBDA k : name_lower(idx[k]) \in all_tags)
        ELSE IF page # None THEN
            LET page_name == strip_prefix_or(to_lowercase(page[1]), PagesPrefix)
            IN  SelectSeq(index_iter(idx), LAMBDA k : name_lower(idx[k]) = page_name)
        ELSE IF page_tags # None THEN
            LET tag == strip_prefix_or(to_lowercase(page_tags[1]), PagesPrefix)
            IN  SelectSeq(index_iter(idx), LAMBDA k : vec_contains(idx[k].tags, tag))
        ELSE IF namespace # None THEN
            LET ns == strip_prefix_or(to_lowercase(namespace[1]), PagesPrefix)
            IN  SelectSeq(index_iter(idx), LAMBDA k :
                    idx[k].namespace # None /\ to_lowercase(idx[k].namespace[1]) = ns)
        ELSE IF property # None THEN
            LET key == remove_chars(to_lowercase(property[1][1]), {"-"})
                value == trim_matches(to_lowercase(property[1][2]), "\"")
            IN  SelectSeq(index_iter(idx), LAMBDA k :
                    LET prop_val == to_lowercase(unwrap_or_default(map_get(idx[k].properties, key)))
                    IN  IF value = <<>> THEN prop_val # <<>>
                        ELSE prop_val = value \/ contains(prop_val, value))
        ELSE IF page_ref # None THEN
            LET page_name == strip_prefix_or(to_lowercase(page_ref[1]), PagesPrefix)
            IN  SelectSeq(index_iter(idx), LAMBDA k :
                    \/ name_lower(idx[k]) = page_name
                    \/ contains(to_lowercase(idx[k].content),
                                <<"[", "[">> \o page_name \o <<"]", "]">>))
        ELSE IF text # None THEN
            SelectSeq(index_iter(idx), LAMBDA k :
                contains(to_lowercase(idx[k].content), to_lowercase(text[1])))
        ELSE IF ~starts_with(expr, <<"(">>) /\ ~starts_with(expr, <<"[">>) /\ byte_len(search) > 2
        THEN SelectSeq(index_iter(idx), LAMBDA k : contains(to_lowercase(idx[k].content), search))
        ELSE <<>>

\* execute_expr of the trimmed expression: each regex is tried in the order of the code
execute_trimmed(expr, idx) ==
    execute_captures(expr, idx,
                     extract_inner(expr, kw_and),
                     extract_inner(expr, kw_or),
                     extract_inner(expr, kw_not),
                     TASK_RE_captures(expr),
                     PRIORITY_RE_captures(expr),
                     between_dates(BETWEEN_RE_captures(expr)),
                     keyword_ref_captures(expr, <<"n", "a", "m", "e", "s", "p", "a", "c", "e">>),
                     PROPERTY_RE_captures(expr),
                     keyword_ref_captures(expr, <<"p", "a", "g", "e">>),
                     keyword_ref_captures(expr, <<"p", "a", "g", "e", "-", "t", "a", "g", "s">>),
                     PAGE_REF_RE_captures(expr),
                     TEXT_SEARCH_RE_captures(expr))

execute_expr(expr_in, idx) == execute_trimmed(trim(expr_in), idx)

\* execute: the expression inside {{query ...}}
execute(text, idx) ==
    execute_expr(trim(trim_end_matches(trim_start_matches(trim(text), QueryOpen), QueryClose)), idx)

(***************************************************************************)
(* The queries explored.  A query is composed as a tree: a leaf carries    *)
(* its text, an and/or/not node its operands and the whitespace written    *)
(* after the keyword, between operands and before the closing ')'.         *)
(***************************************************************************)
Style(kw, sep, close) == [kw |-> kw, sep |-> sep, close |-> close]

PlainStyle == Style(<<" ">>, <<" ">>, <<>>)

WideStyles == { Style(<<" ", " ">>, <<"\n">>, <<" ">>), Style(<<"\n">>, <<" ", "\t", " ">>, <<" ", " ">>) }

Keyword(op) == IF op = "and" THEN kw_and ELSE IF op = "or" THEN kw_or ELSE kw_not

\* kw is the keyword as the query writes it: of a leaf, <<>> when it has none
Leaf(t) == [op |-> "leaf", text |-> t, args |-> <<>>, ws |-> PlainStyle, kw |-> <<>>]
Node(op, args, ws) ==
    [op |-> op, text |-> <<>>, args |-> args, ws |-> ws, kw |-> Keyword(op)]

\* a predicate (KEYWORD rest, its keyword written as kw
Predicate(kw, rest) == [Leaf(<<"(">> \o kw \o rest) EXCEPT !.kw = kw]

\* the node n with its keyword written as kw
Written(n, kw) == [n EXCEPT !.kw = kw]

RECURSIVE query_text(_)
RECURSIVE join_operands(_, _)
\* the operands of a node, separated as the node writes them
join_operands(args, sep) ==
    IF args = <<>> THEN <<>>
    ELSE IF Len(args) = 1 THEN query_text(args[1])
    ELSE query_text(args[1]) \o sep \o join_operands(Tail(args), sep)

\* the text of a query
query_text(n) ==
    IF n.op = "leaf" THEN n.text
    ELSE <<"(">> \o n.kw \o n.ws.kw \o join_operands(n.args, n.ws.sep)
             \o n.ws.close \o <<")">>

\* the same query written with single spaces
RECURSIVE plain(_)
plain(n) ==
    IF n.op = "leaf" THEN n
    ELSE Written(Node(n.op, [i \in 1..Len(n.args) |-> plain(n.args[i])], PlainStyle), n.kw)

\* the same query with every keyword in lower case
RECURSIVE lower_keywords(_)
lower_keywords(n) ==
    IF n.op = "leaf"
    THEN IF n.kw = <<>> THEN n
         ELSE Predicate(to_lowercase(n.kw), from(n.text, Len(n.kw) + 2))
    ELSE Written([n EXCEPT !.args = [i \in 1..Len(n.args) |-> lower_keywords(n.args[i])]],
                 to_lowercase(n.kw))

\* the query as it stands in a page: {{query ...}}
in_braces(t) == QueryOpen \o <<" ">> \o t \o QueryClose

t_a == <<"a">>
t_b == <<"b">>
n_p_q == <<"p", " ", "q">>
n_q == <<"q">>
n_r == <<"r">>
n_journal == <<"j", "o", "u", "r", "n", "a", "l", "s", "/", "2", "0", "2", "4", "_", "0", "1", "_", "1", "5">>

QueryDocs ==
    { Page(n_p_q, <<>>, <<t_a, t_b>>, <<>>),
      Page(n_q, <<>>, <<t_a>>, <<"x", "y", "z">>),
      Page(n_r, <<>>, <<t_b>>, <<"[", "[", "P", " ", "q", "]", "]", " ", "X", "y", "z">>),
      Page(n_r, <<>>, <<>>, <<>>),
      with_namespace(with_properties(Page(n_journal, <<>>, <<>>, <<"-", " ", "T", "O", "D", "O", " ", "[", "#", "A", "]", " ", "x">>),
                                     <<<<<<"t", "y", "p", "e">>, <<"B", "o", "o", "k">>>>>>),
                     <<"N", "s">>) }

QueryIndexes == SeqsNoRep(QueryDocs, MaxPages)

l_tag_a == Leaf(<<"(", "p", "a", "g", "e", "-", "t", "a", "g", "s", " ", "[", "[", "a", "]", "]", ")">>)
l_tag_b == Leaf(<<"(", "p", "a", "g", "e", "-", "t", "a", "g", "s", " ", "[", "[", "b", "]", "]", ")">>)
l_tag_wide == Leaf(<<"(", "p", "a", "g", "e", "-", "t", "a", "g", "s", " ", " ", "[", "[", "A", "]", "]", " ", ")">>)
l_page == Leaf(<<"(", "p", "a", "g", "e", " ", "[", "[", "p", " ", "q", "]", "]", ")">>)
l_ref == Leaf(<<"[", "[", "p", " ", "q", "]", "]">>)
l_quoted == Leaf(<<"\"", "x", "y", "z", "\"">>)
l_bare == Leaf(<<"x", "y", "z">>)

Leaves == { l_tag_a, l_tag_b, l_tag_wide, l_page, l_ref, l_quoted, l_bare }

\* kw with its first letter in upper case
capitalised(kw) == [i \in 1..Len(kw) |-> IF i = 1 THEN to_uppercase(kw)[1] ELSE kw[i]]

\* the ways a keyword is written: lower case, upper case, mixed
Cases(kw) == { kw, to_uppercase(kw), capitalised(kw) }

\* one predicate of each keyword, as <<keyword, rest>>
PredicateShapes ==
    { <<<<"p", "a", "g", "e">>, <<" ", "[", "[", "p", " ", "q", "]", "]", ")">>>>,
      <<<<"p", "a", "g", "e", "-", "t", "a", "g", "s">>, <<" ", "[", "[", "a", "]", "]", ")">>>>,
      <<<<"n", "a", "m", "e", "s", "p", "a", "c", "e">>, <<" ", "[", "[", "n", "s", "]", "]", ")">>>>,
      <<<<"p", "r", "o", "p", "e", "r", "t", "y">>, <<" ", "t", "y", "p", "e", " ", "b", "o", "o", "k", ")">>>>,
      <<<<"p", "a", "g", "e", "-", "p", "r", "o", "p", "e", "r", "t", "y">>, <<" ", ":", "t", "y", "p", "e", ")">>>>,
      <<<<"t", "a", "s", "k">>, <<" ", "t", "o", "d", "o", ")">>>>,
      <<<<"p", "r", "i", "o", "r", "i", "t", "y">>, <<" ", "a", ")">>>>,
      <<<<"b", "e", "t", "w", "e", "e", "n">>, <<" ", "[", "[", "J", "a", "n", " ", "1", "s", "t", ",", " ", "2", "0", "2", "4", "]", "]", " ", "[", "[", "2", "0", "2", "4", "-", "0", "1", "-", "1", "5", "]", "]", ")">>>>,
      <<<<"a", "l", "l", "-", "p", "a", "g", "e", "-", "t", "a", "g", "s">>, <<")">>>> }

Predicates == UNION { { Predicate(kw, sh[2]) : kw \in Cases(sh[1]) } : sh \in PredicateShapes }

Not(x) == Node("not", <<x>>, PlainStyle)
And(x, y) == Node("and", <<x, y>>, PlainStyle)
Or(x, y) == Node("or", <<x, y>>, PlainStyle)

Nested ==
    { Not(x) : x \in { l_tag_a, l_tag_b, l_ref, l_quoted } } \cup
    { Node(op, <<xy[1], xy[2]>>, PlainStyle) :
          op \in {"and", "or"},
          xy \in { p \in { l_tag_a, l_tag_b, l_quoted } \X { l_tag_a, l_tag_b, l_quoted } :
                       p[1] # p[2] } }

FirstOperands ==
    Leaves \cup { Not(l_tag_b), Not(l_quoted), And(l_tag_a, l_tag_b), And(l_tag_a, l_quoted),
                  Or(l_tag_a, l_quoted), Or(l_tag_b, l_tag_a) }

SecondOperands ==
    Leaves \cup { Not(l_tag_b), Not(l_quoted), And(l_tag_a, l_tag_b), And(l_tag_b, l_quoted) }

\* and, or, not with the keyword in each case, alone and inside a query
CasedNodes ==
    UNION { { Written(n, kw) : kw \in Cases(n.kw) } :
                n \in { And(l_tag_a, l_tag_b), Or(l_tag_a, l_tag_b), Not(l_tag_a) } }

Queries ==
    Leaves \cup Predicates \cup CasedNodes \cup
    { Node(op, <<x, y>>, PlainStyle) :
          op \in {"and", "or"}, x \in { l_tag_a, l_page }, y \in CasedNodes } \cup
    { Not(x) : x \in Leaves \cup Nested } \cup
    { Node("not", <<x>>, ws) : x \in Leaves, ws \in WideStyles } \cup
    { Node(op, <<x, y>>, PlainStyle) :
          op \in {"and", "or"}, x \in FirstOperands, y \in SecondOperands } \cup
    { Node(op, <<x, y>>, ws) :
          op \in {"and", "or"},
          x \in { l_tag_a, l_ref, l_quoted },
          y \in { l_tag_wide, l_ref, l_bare },
          ws \in WideStyles } \cup
    { Node(op, <<x, y, z>>, PlainStyle) :
          op \in {"and", "or"},
          x \in { l_tag_a, l_tag_b, l_quoted },
          y \in { l_tag_b, l_quoted },
          z \in { l_tag_a, l_ref, l_bare } }

(***************************************************************************)
(* The query specification: an index is given, then a query is executed,   *)
(* or the operand text of an and/or query is split.                        *)
(***************************************************************************)
InitQuery ==
    /\ page_index \in QueryIndexes
    /\ pc = "idle"
    /\ link = <<>>
    /\ final_link = <<>>
    /\ parts = <<>>
    /\ content = <<>>
    /\ result = <<>>
    /\ query_ast = <<>>
    /\ query_str = <<>>
    /\ results = <<>>
    /\ query_parts = <<>>
    /\ options = <<>>
    /\ sorted = <<>>
    /\ markdown = <<>>
    /\ NoRun

Execute(q) ==
    /\ pc = "idle"
    /\ query_ast' = q
    /\ query_str' = in_braces(query_text(q))
    /\ results' = execute(in_braces(query_text(q)), page_index)
    /\ pc' = "executed"
    /\ UNCHANGED <<page_index, linkVars, query_parts, renderVars, runVars>>

\* execute_and and execute_or hand parse_query_parts what extract_inner returns
ParseParts(q) ==
    /\ pc = "idle"
    /\ q.op \in {"and", "or"}
    /\ extract_inner(query_text(q), Keyword(q.op)) # None
    /\ query_ast' = q
    /\ query_str' = extract_inner(query_text(q), Keyword(q.op))[1]
    /\ query_parts' = parse_query_parts(extract_inner(query_text(q), Keyword(q.op))[1])
    /\ pc' = "parsed"
    /\ UNCHANGED <<page_index, linkVars, results, renderVars, runVars>>

NextQuery ==
    \/ \E q \in Queries : Execute(q)
    \/ \E q \in Queries : ParseParts(q)

SpecQuery == InitQuery /\ [][NextQuery]_vars

(***************************************************************************)
(* The query grammar's operators, stated over the operands a query was     *)
(* composed of.  A document's identity is its name.                        *)
(***************************************************************************)
\* what the code returns for the i-th operand of the query composed
operand_result(i) == execute_expr(query_text(query_ast.args[i]), page_index)

operand_names(i) == names_of(operand_result(i), page_index)

\* the operands' results one after the other, in operand order
RECURSIVE concatenated(_)
concatenated(i) ==
    IF i > Len(query_ast.args) THEN <<>> ELSE operand_result(i) \o concatenated(i + 1)

\* the elements of a set of numbers in ascending order
Ascending(S) == [k \in 1..Cardinality(S) |-> CHOOSE x \in S : Cardinality({ y \in S : y <= x }) = k]

\* a result without the documents that stand in it earlier
FirstSeen(res) ==
    LET keep == { j \in 1..Len(res) :
                    \A e \in 1..(j - 1) : page_index[res[e]].name # page_index[res[j]].name }
    IN  [k \in 1..Cardinality(keep) |-> res[Ascending(keep)[k]]]

\* the whole index, in index order
AllPages == [k \in 1..Len(page_index) |-> k]

\* an operand that is an expression: its text begins with '(' or '['
IsExpression(n) == query_text(n)[1] \in {"(", "["}

\* every keyword of the query n is written all in lower or all in upper case
RECURSIVE uniform_case(_)
uniform_case(n) ==
    IF n.op = "leaf" THEN TRUE
    ELSE /\ n.kw \in { Keyword(n.op), to_uppercase(Keyword(n.op)) }
         /\ \A i \in 1..Len(n.args) : uniform_case(n.args[i])

\* the texts of the operands of the query composed
OperandTexts == [i \in 1..Len(query_ast.args) |-> query_text(query_ast.args[i])]

\* C7 (and E1 ... En) returns exactly the documents of E1's result that are in
\* the result of every other operand, in the order of E1's result, whatever the
\* form of the operands: predicates, nested and/or/not, [[Name]], quoted or bare text
C7_AndIntersection ==
    (pc = "executed" /\ query_ast.op = "and") =>
        results = SelectSeq(operand_result(1),
                            LAMBDA k : \A i \in 2..Len(query_ast.args) :
                                           page_index[k].name \in operand_names(i))

\* what the code does: the intersection over the operands that are expressions
AndIntersectsExpressionOperands ==
    (/\ pc = "executed"
     /\ query_ast.op = "and"
     /\ uniform_case(query_ast)
     /\ \A i \in 1..Len(query_ast.args) : IsExpression(query_ast.args[i])) =>
        results = SelectSeq(operand_result(1),
                            LAMBDA k : \A i \in 2..Len(query_ast.args) :
                                           page_index[k].name \in operand_names(i))

\* C8 (or E1 ... En) returns every document in the result of at least one operand,
\* each once, in the order of first appearance in the operands' results taken in
\* operand order; (or (and A B) (and C D)) is the union of the two conjunctions
C8_OrUnion ==
    (pc = "executed" /\ query_ast.op = "or") =>
        /\ results = FirstSeen(concatenated(1))
        /\ (/\ Len(query_ast.args) = 2
            /\ query_ast.args[1].op = "and"
            /\ query_ast.args[2].op = "and") =>
               LET N(i, j) == names_of(execute_expr(query_text(query_ast.args[i].args[j]),
                                                    page_index), page_index)
               IN  names_of(results, page_index) =
                       (N(1, 1) \cap N(1, 2)) \cup (N(2, 1) \cap N(2, 2))

\* what the code does: the union over the operands that are expressions
OrUnitesExpressionOperands ==
    (/\ pc = "executed"
     /\ query_ast.op = "or"
     /\ uniform_case(query_ast)
     /\ \A i \in 1..Len(query_ast.args) : IsExpression(query_ast.args[i])) =>
        /\ results = FirstSeen(concatenated(1))
        /\ (/\ Len(query_ast.args) = 2
            /\ query_ast.args[1].op = "and"
            /\ query_ast.args[2].op = "and"
            /\ \A i, j \in 1..2 : IsExpression(query_ast.args[i].args[j])) =>
               LET N(i, j) == names_of(execute_expr(query_text(query_ast.args[i].args[j]),
                                                    page_index), page_index)
               IN  names_of(results, page_index) =
                       (N(1, 1) \cap N(1, 2)) \cup (N(2, 1) \cap N(2, 2))

\* C9 (not E) returns exactly the documents of the index that are not in E's
\* result, in index order, and (and A (not B)) returns the documents of A's result
\* that are not in B's result
C9_NotComplement ==
    /\ (pc = "executed" /\ query_ast.op = "not") =>
           results = SelectSeq(AllPages, LAMBDA k : page_index[k].name \notin operand_names(1))
    /\ (/\ pc = "executed"
        /\ query_ast.op = "and"
        /\ Len(query_ast.args) = 2
        /\ query_ast.args[2].op = "not") =>
           LET excluded == names_of(execute_expr(query_text(query_ast.args[2].args[1]),
                                                 page_index), page_index)
           IN  results = SelectSeq(operand_result(1),
                                   LAMBDA k : page_index[k].name \notin excluded)

\* what the code does: (not E) is the complement of E's result in the index, and
\* (and A (not B)) is A's result without B's when A is an expression
NotComplementsOperand ==
    /\ (pc = "executed" /\ query_ast.op = "not" /\ uniform_case(query_ast)) =>
           /\ results = SelectSeq(AllPages,
                                  LAMBDA k : page_index[k].name \notin operand_names(1))
           /\ names_of(results, page_index) \cap operand_names(1) = {}
           /\ names_of(results, page_index) \cup operand_names(1)
                  = names_of(AllPages, page_index)
    /\ (/\ pc = "executed"
        /\ query_ast.op = "and"
        /\ Len(query_ast.args) = 2
        /\ query_ast.args[2].op = "not"
        /\ uniform_case(query_ast)
        /\ IsExpression(query_ast.args[1])) =>
           LET excluded == names_of(execute_expr(query_text(query_ast.args[2].args[1]),
                                                 page_index), page_index)
           IN  results = SelectSeq(operand_result(1),
                                   LAMBDA k : page_index[k].name \notin excluded)

\* C10 parse_query_parts returns exactly the top-level operands of the operand
\* text, in order, and the whitespace written after the keyword, between the
\* operands and before the closing parenthesis does not change a query's result
C10_SplitsTopLevelOperands ==
    /\ pc = "parsed" => query_parts = OperandTexts
    /\ pc = "executed" =>
           results = execute(in_braces(query_text(plain(query_ast))), page_index)

\* what the code does: the operands that are expressions, in order
SplitKeepsExpressionOperands ==
    pc = "parsed" =>
        query_parts = SelectSeq(OperandTexts, LAMBDA t : t[1] \in {"(", "["})

\* what the code does: whitespace between operands does not change the result
WhitespaceLeavesResult ==
    pc = "executed" =>
        results = execute(in_braces(query_text(plain(query_ast))), page_index)


(***************************************************************************)
(* Keyword case.                                                           *)
(***************************************************************************)
\* C11: a query gives the result of the same query with every keyword in lower
\* case, whatever mix of upper and lower case its keywords are written in
C11_KeywordCaseInsensitive ==
    pc = "executed" =>
        results = execute(in_braces(query_text(lower_keywords(query_ast))), page_index)

\* what extract_inner does: the case of a predicate keyword never matters, and
\* that of and, or, not does not when it is all lower or all upper
UniformCaseKeywordsAgree ==
    (pc = "executed" /\ uniform_case(query_ast)) =>
        results = execute(in_braces(query_text(lower_keywords(query_ast))), page_index)

\* and: an and, or, not whose keyword mixes cases matches no page
MixedCaseCombinatorIsEmpty ==
    (pc = "executed" /\ query_ast.op # "leaf"
        /\ query_ast.kw \notin { Keyword(query_ast.op), to_uppercase(Keyword(query_ast.op)) }) =>
        results = <<>>


(***************************************************************************)
(* query.rs: the rendering of a query result.                              *)
(***************************************************************************)
\* the character U+0060, which a TLA+ string cannot hold
Backtick == "U+0060"

\* the characters in the order of their code points, the order of str::cmp
CodePoints ==
    <<"\t", "\n", " ", "!", "\"", "#", "$", "&", "'", "(", ")", "*", "+", ",", "-", ".", "/",
      "0", "1", "2", "3", "4", "5", "6", "7", "8", "9", ":", ";", "<", "=", ">", "?", "@",
      "A", "B", "C", "D", "E", "F", "G", "H", "I", "J", "K", "L", "M",
      "N", "O", "P", "Q", "R", "S", "T", "U", "V", "W", "X", "Y", "Z",
      "[", "\\", "]", "^", "_", Backtick,
      "a", "b", "c", "d", "e", "f", "g", "h", "i", "j", "k", "l", "m",
      "n", "o", "p", "q", "r", "s", "t", "u", "v", "w", "x", "y", "z",
      "{", "|", "}", "~", "É", "é">>

code_point(c) == CHOOSE i \in 1..Len(CodePoints) : CodePoints[i] = c

\* String::cmp: "Less", "Equal" or "Greater"
RECURSIVE cmp(_, _)
cmp(a, b) ==
    IF a = <<>> THEN (IF b = <<>> THEN "Equal" ELSE "Less")
    ELSE IF b = <<>> THEN "Greater"
    ELSE IF code_point(a[1]) < code_point(b[1]) THEN "Less"
    ELSE IF code_point(a[1]) > code_point(b[1]) THEN "Greater"
    ELSE cmp(Tail(a), Tail(b))

\* [String]::join
RECURSIVE join(_, _)
join(ss, sep) ==
    IF ss = <<>> THEN <<>>
    ELSE IF Len(ss) = 1 THEN ss[1]
    ELSE ss[1] \o sep \o join(Tail(ss), sep)

QueryOptions(properties, sort_by, sort_desc, table) ==
    [properties |-> properties, sort_by |-> sort_by, sort_desc |-> sort_desc, table |-> table]

\* QueryOptions::default
DefaultOptions == QueryOptions(<<>>, None, FALSE, None)

get_page_property(page, key) ==
    LET k == to_lowercase(key)
    IN  IF k \in {<<"p", "a", "g", "e">>, <<"n", "a", "m", "e">>} THEN page.name
        ELSE IF k = <<"c", "r", "e", "a", "t", "e", "d">> THEN unwrap_or_default(page.created)
        ELSE IF k \in {<<"m", "o", "d", "i", "f", "i", "e", "d">>, <<"u", "p", "d", "a", "t", "e", "d">>} THEN unwrap_or_default(page.modified)
        ELSE IF k = <<"t", "a", "g", "s">> THEN join(page.tags, <<",", " ">>)
        ELSE IF k = <<"n", "a", "m", "e", "s", "p", "a", "c", "e">> THEN unwrap_or_default(page.namespace)
        ELSE unwrap_or_default(map_get(page.properties, remove_chars(k, {"-"})))

\* the closure handed to sort_by: the ordering of the pages a and b
sort_cmp(a, b, opts) ==
    IF opts.sort_by # None
    THEN IF opts.sort_desc
         THEN cmp(get_page_property(b, opts.sort_by[1]), get_page_property(a, opts.sort_by[1]))
         ELSE cmp(get_page_property(a, opts.sort_by[1]), get_page_property(b, opts.sort_by[1]))
    ELSE cmp(a.name, b.name)

\* slice::sort_by, a stable sort: res[i] goes after every element placed before it
\* that does not compare Greater than it
RECURSIVE sort_by(_, _, _, _, _)
sort_by(res, i, done, idx, opts) ==
    IF i > Len(res) THEN done
    ELSE LET at_most == { j \in 1..Len(done) :
                            sort_cmp(idx[done[j]], idx[res[i]], opts) # "Greater" }
             pos == IF at_most = {} THEN 0 ELSE CHOOSE j \in at_most : \A l \in at_most : l <= j
         IN  sort_by(res, i + 1,
                     SubSeq(done, 1, pos) \o <<res[i]>> \o SubSeq(done, pos + 1, Len(done)),
                     idx, opts)

\* render_list
RECURSIVE render_list(_, _)
render_list(res, idx) ==
    IF res = <<>> THEN <<>>
    ELSE LET p == idx[res[1]]
             icon == unwrap_or_default(map_get(p.properties, <<"i", "c", "o", "n">>))
             title == IF map_get(p.properties, <<"t", "i", "t", "l", "e">>) = None THEN replace(p.name, "_", " ")
                      ELSE map_get(p.properties, <<"t", "i", "t", "l", "e">>)[1]
             line == <<"-", " ", "[", "[">> \o p.name \o <<"|">>
                     \o (IF icon = <<>> THEN <<>> ELSE icon \o <<" ">>) \o title \o <<"]", "]">>
         IN  IF Len(res) = 1 THEN line ELSE line \o <<"\n">> \o render_list(Tail(res), idx)

\* str::replace of a pipe character by its HTML entity
RECURSIVE escape_pipes(_)
escape_pipes(s) ==
    IF s = <<>> THEN <<>>
    ELSE (IF s[1] = "|" THEN <<"&", "#", "1", "2", "4", ";">> ELSE <<s[1]>>) \o escape_pipes(Tail(s))

\* render_table: the header of the column prop
table_header(prop) ==
    IF to_lowercase(prop) \in {<<"p", "a", "g", "e">>, <<"n", "a", "m", "e">>} THEN <<"P", "a", "g", "e">>
    ELSE IF prop = <<>> THEN <<>>
    ELSE to_uppercase(<<prop[1]>>) \o Tail(prop)

\* render_table: the cell of the column prop in the row of page
table_cell(page, prop) ==
    IF to_lowercase(prop) \in {<<"p", "a", "g", "e">>, <<"n", "a", "m", "e">>} THEN <<"[", "[">> \o page.name \o <<"]", "]">>
    ELSE escape_pipes(get_page_property(page, prop))

RECURSIVE header_row(_)
header_row(props) ==
    IF props = <<>> THEN <<>>
    ELSE <<" ">> \o table_header(props[1]) \o <<" ", "|">> \o header_row(Tail(props))

RECURSIVE separator_row(_)
separator_row(props) ==
    IF props = <<>> THEN <<>> ELSE <<" ", "-", "-", "-", " ", "|">> \o separator_row(Tail(props))

RECURSIVE data_row(_, _)
data_row(page, props) ==
    IF props = <<>> THEN <<>>
    ELSE <<" ">> \o table_cell(page, props[1]) \o <<" ", "|">> \o data_row(page, Tail(props))

RECURSIVE data_rows(_, _, _)
data_rows(res, idx, props) ==
    IF res = <<>> THEN <<>>
    ELSE <<"|">> \o data_row(idx[res[1]], props) \o <<"\n">> \o data_rows(Tail(res), idx, props)

render_table(res, idx, props) ==
    <<"|">> \o header_row(props) \o <<"\n">>
    \o <<"|">> \o separator_row(props) \o <<"\n">>
    \o data_rows(res, idx, props)

\* the properties detect_common_properties never counts
SystemProperties == {<<"t", "i", "t", "l", "e">>, <<"i", "c", "o", "n">>, <<"p", "u", "b", "l", "i", "c">>, <<"a", "l", "i", "a", "s">>, <<"a", "l", "i", "a", "s", "e", "s">>}

\* detect_common_properties: prop_counts after the loop over the results, as the
\* keys counted and the count of each
counted_keys(res, idx) ==
    { idx[res[i]].properties[j][1] : <<i, j>> \in
          { ij \in (1..Len(res)) \X (1..MaxProps) :
                /\ ij[2] <= Len(idx[res[ij[1]]].properties)
                /\ to_lowercase(idx[res[ij[1]]].properties[ij[2]][1]) \notin SystemProperties } }
    \cup (IF \E i \in 1..Len(res) : idx[res[i]].tags # <<>> THEN {<<"t", "a", "g", "s">>} ELSE {})

prop_count(key, res, idx) ==
    Cardinality({ i \in 1..Len(res) :
                    /\ map_get(idx[res[i]].properties, key) # None
                    /\ to_lowercase(key) \notin SystemProperties })
    + (IF key = <<"t", "a", "g", "s">> THEN Cardinality({ i \in 1..Len(res) : idx[res[i]].tags # <<>> })
       ELSE 0)

\* sort_by(|a, b| b.1.cmp(&a.1).then(a.0.cmp(&b.0))) over the counted keys: the
\* keys are distinct, so the order is the only one the comparison allows
RECURSIVE prop_list(_, _, _)
prop_list(keys, res, idx) ==
    IF keys = {} THEN <<>>
    ELSE LET first == CHOOSE k \in keys : \A o \in keys \ {k} :
                          \/ prop_count(k, res, idx) > prop_count(o, res, idx)
                          \/ /\ prop_count(k, res, idx) = prop_count(o, res, idx)
                             /\ cmp(k, o) = "Less"
         IN  <<first>> \o prop_list(keys \ {first}, res, idx)

detect_common_properties(res, idx) ==
    LET threshold == IF Len(res) \div 3 > 1 THEN Len(res) \div 3 ELSE 1
        kept == { k \in counted_keys(res, idx) : prop_count(k, res, idx) >= threshold }
        list == prop_list(kept, res, idx)
    IN  <<<<"p", "a", "g", "e">>>> \o SubSeq(list, 1, IF Len(list) < 3 THEN Len(list) ELSE 3)

\* what &query_str[..80] panics with when byte 80 is inside a character
Panic == <<"panic">>

\* the longest prefix of s of at most n bytes
byte_prefix(s, n) ==
    SubSeq(s, 1, CHOOSE k \in 0..Len(s) :
                     /\ byte_len(SubSeq(s, 1, k)) <= n
                     /\ (k = Len(s) \/ byte_len(SubSeq(s, 1, k + 1)) > n))

\* the callout of an empty result
no_results(query) ==
    IF byte_len(query) > 80
    THEN IF byte_len(byte_prefix(query, 80)) = 80
         THEN <<">", " ", "[", "!", "i", "n", "f", "o", "]", " ", "Q", "u", "e", "r", "y", " ", "R", "e", "s", "u", "l", "t", "s">> \o <<"\n">> \o <<">", " ", "N", "o", " ", "p", "a", "g", "e", "s", " ", "m", "a", "t", "c", "h", " ", "t", "h", "i", "s", " ", "q", "u", "e", "r", "y", ".">>
              \o <<"\n">> \o <<">", " ", Backtick>> \o byte_prefix(query, 80) \o <<".", ".", ".", Backtick>>
         ELSE Panic
    ELSE <<">", " ", "[", "!", "i", "n", "f", "o", "]", " ", "Q", "u", "e", "r", "y", " ", "R", "e", "s", "u", "l", "t", "s">> \o <<"\n">> \o <<">", " ", "N", "o", " ", "p", "a", "g", "e", "s", " ", "m", "a", "t", "c", "h", " ", "t", "h", "i", "s", " ", "q", "u", "e", "r", "y", ".">>
         \o <<"\n">> \o <<">", " ", Backtick>> \o query \o <<Backtick>>

\* results_to_markdown_with_options: the result after the sort
sorted_results(res, idx, opts) == sort_by(res, 1, <<>>, idx, opts)

\* a variant that lets the table override win over explicit columns
results_to_markdown_override_first(res, idx, query, opts) ==
    IF res = <<>> THEN no_results(query)
    ELSE IF opts.table = Some(FALSE) THEN render_list(sorted_results(res, idx, opts), idx)
    ELSE IF opts.properties # <<>>
    THEN render_table(sorted_results(res, idx, opts), idx, opts.properties)
    ELSE render_table(sorted_results(res, idx, opts), idx,
                      detect_common_properties(sorted_results(res, idx, opts), idx))

results_to_markdown_with_options(res, idx, query, opts) ==
    IF res = <<>> THEN no_results(query)
    ELSE IF opts.properties # <<>>
    THEN render_table(sorted_results(res, idx, opts), idx, opts.properties)
    ELSE IF opts.table = Some(FALSE) THEN render_list(sorted_results(res, idx, opts), idx)
    ELSE render_table(sorted_results(res, idx, opts), idx,
                      detect_common_properties(sorted_results(res, idx, opts), idx))


(***************************************************************************)
(* The results and options rendered.  The properties of a page are as      *)
(* parse_properties stores them: keys in lower case; a page with a tags    *)
(* property has its tags.                                                  *)
(***************************************************************************)
RenderDocs ==
    { with_properties(Page(<<"b", "_", "x">>, <<>>, <<>>, <<>>), <<<<<<"t", "y", "p", "e">>, <<"b", "o", "o", "k">>>>>>),
      with_properties(Page(<<"a">>, <<>>, <<>>, <<>>),
                      <<<<<<"t", "y", "p", "e">>, <<"b", "o", "o", "k">>>>, <<<<"t", "i", "t", "l", "e">>, <<"T">>>>, <<<<"i", "c", "o", "n">>, <<"*">>>>>>),
      with_properties(Page(<<"c">>, <<>>, <<<<"t">>>>, <<>>),
                      <<<<<<"t", "y", "p", "e">>, <<"a", "r", "t", "|", "x">>>>, <<<<"s", "t", "a", "t", "u", "s">>, <<"d", "o", "n", "e">>>>, <<<<"t", "a", "g", "s">>, <<"t">>>>>>),
      Page(<<"d">>, <<>>, <<>>, <<>>),
      with_properties(Page(<<"e">>, <<>>, <<>>, <<>>), <<<<<<"s", "t", "a", "t", "u", "s">>, <<"o", "p", "e", "n">>>>>>) }

RenderIndexes == SeqsNoRep(RenderDocs, MaxResults)

RenderOptions ==
    { QueryOptions(props, sort[1], sort[2], table) :
          props \in { <<>>, <<<<"p", "a", "g", "e">>, <<"t", "y", "p", "e">>>>, <<<<"N", "a", "m", "e">>, <<"s", "t", "a", "t", "u", "s">>, <<"t", "a", "g", "s">>>> },
          sort \in { <<None, FALSE>> } \cup ({ Some(<<"t", "y", "p", "e">>), Some(<<"S", "t", "a", "t", "u", "s">>) } \X BOOLEAN),
          table \in { None, Some(TRUE), Some(FALSE) } }

Pad(n) == [i \in 1..n |-> "x"]

\* query texts of 12 bytes, of 81 bytes, and of 81 bytes with bytes 80 and 81
\* in one character
RenderQueries == { <<"(", "p", "a", "g", "e", " ", "[", "[", "a", "]", "]", ")">>, Pad(81), Pad(79) \o <<"é">> }

InitRender ==
    /\ page_index \in RenderIndexes
    /\ results = index_iter(page_index)
    /\ query_str \in (IF page_index = <<>> THEN RenderQueries ELSE { <<"(", "p", "a", "g", "e", " ", "[", "[", "a", "]", "]", ")">> })
    /\ pc = "idle"
    /\ link = <<>>
    /\ final_link = <<>>
    /\ parts = <<>>
    /\ content = <<>>
    /\ result = <<>>
    /\ query_ast = <<>>
    /\ query_parts = <<>>
    /\ options = <<>>
    /\ sorted = <<>>
    /\ markdown = <<>>
    /\ NoRun

Render(opts) ==
    /\ pc = "idle"
    /\ options' = opts
    /\ sorted' = sorted_results(results, page_index, opts)
    /\ markdown' = results_to_markdown_with_options(results, page_index, query_str, opts)
    /\ pc' = "rendered"
    /\ UNCHANGED <<page_index, linkVars, queryVars, runVars>>

NextRender == \E opts \in RenderOptions : Render(opts)

SpecRender == InitRender /\ [][NextRender]_vars

(***************************************************************************)
(* The order of the rendered result.                                       *)
(***************************************************************************)
\* the value of the sort key on the page at index position k
key_of(k) == get_page_property(page_index[k], options.sort_by[1])

name_of(k) == page_index[k].name

\* the sequence s holds exactly the elements of the sequence t, each as often
IsPermutation(s, t) ==
    /\ Len(s) = Len(t)
    /\ \A x \in { t[i] : i \in 1..Len(t) } :
           Cardinality({ i \in 1..Len(s) : s[i] = x }) = Cardinality({ i \in 1..Len(t) : t[i] = x })

\* every order the input result can come in
Reorderings(res) ==
    { [i \in 1..Len(res) |-> res[f[i]]] : f \in Permutations(1..Len(res)) }

\* the page a is rendered before the page b: by key in the direction asked for,
\* by name when the keys are equal or no key is given
InOrder(a, b) ==
    IF options.sort_by = None THEN cmp(name_of(a), name_of(b)) # "Greater"
    ELSE \/ cmp(key_of(a), key_of(b)) = (IF options.sort_desc THEN "Greater" ELSE "Less")
         \/ /\ cmp(key_of(a), key_of(b)) = "Equal"
            /\ cmp(name_of(a), name_of(b)) # "Greater"

\* C12: a non-empty result is rendered in the order of the explicit sort key, in the
\* direction asked for, pages of equal key value by name ascending; with no sort key
\* by name ascending; and the rendered order is the same for every order of the input
C12_SortOrder ==
    (pc = "rendered" /\ results # <<>>) =>
        /\ IsPermutation(sorted, results)
        /\ \A i, j \in 1..Len(sorted) : i < j => InOrder(sorted[i], sorted[j])
        /\ \A other \in Reorderings(results) :
               sorted_results(other, page_index, options) = sorted

\* the position of the page k in the input result
input_position(k) == CHOOSE i \in 1..Len(results) : results[i] = k

\* what the code does: a stable sort, pages of equal key value stay in the order
\* of the input result
SortIsStable ==
    (pc = "rendered" /\ results # <<>>) =>
        /\ IsPermutation(sorted, results)
        /\ \A i, j \in 1..Len(sorted) : i < j =>
               IF options.sort_by = None
               THEN cmp(name_of(sorted[i]), name_of(sorted[j])) = "Less"
               ELSE \/ cmp(key_of(sorted[i]), key_of(sorted[j]))
                           = (IF options.sort_desc THEN "Greater" ELSE "Less")
                    \/ /\ cmp(key_of(sorted[i]), key_of(sorted[j])) = "Equal"
                       /\ input_position(sorted[i]) < input_position(sorted[j])

\* and: with no sort key, pages of distinct names are rendered by name ascending
\* whatever the order of the input
NameOrderWithoutKey ==
    (pc = "rendered" /\ results # <<>> /\ options.sort_by = None) =>
        \A other \in Reorderings(results) :
            sorted_results(other, page_index, options) = sorted

(***************************************************************************)
(* Table or list.                                                          *)
(***************************************************************************)
\* the lines of the text s, a final line without its newline included
lines_of(s) ==
    LET nl == { i \in 1..Len(s) : s[i] = "\n" }
        starts == {1} \cup { i + 1 : i \in nl }
        start(k) == CHOOSE b \in starts : Cardinality({ o \in starts : o < b }) = k - 1
        stop(b) == IF \E i \in nl : i >= b
                   THEN (CHOOSE i \in nl : i >= b /\ \A o \in nl : o >= b => i <= o) - 1
                   ELSE Len(s)
    IN  [k \in 1..Cardinality(starts) |-> SubSeq(s, start(k), stop(start(k)))]

\* the text is a table: a header row, a separator row and one row for each
\* result, each row inside pipes, and nothing after the last row
IsTable(md) ==
    /\ Len(lines_of(md)) = Len(sorted) + 3
    /\ lines_of(md)[Len(sorted) + 3] = <<>>
    /\ \A k \in 1..(Len(sorted) + 2) :
           starts_with(lines_of(md)[k], <<"|", " ">>) /\ ends_with(lines_of(md)[k], <<" ", "|">>)
    /\ \A i \in 1..Len(lines_of(md)[2]) : lines_of(md)[2][i] \in {"|", " ", "-"}
    /\ \A k \in 1..Len(sorted) :
           contains(lines_of(md)[k + 2], <<"[", "[">> \o name_of(sorted[k]) \o <<"]", "]">>)
              \/ \A c \in 1..Len(options.properties) :
                     to_lowercase(options.properties[c]) \notin {<<"p", "a", "g", "e">>, <<"n", "a", "m", "e">>}

\* the title of the page p: its title property, or its name with spaces for _
title_of(p) ==
    IF \E j \in 1..Len(p.properties) : p.properties[j][1] = <<"t", "i", "t", "l", "e">>
    THEN p.properties[CHOOSE j \in 1..Len(p.properties) : p.properties[j][1] = <<"t", "i", "t", "l", "e">>][2]
    ELSE [i \in 1..Len(p.name) |-> IF p.name[i] = "_" THEN " " ELSE p.name[i]]

\* the text is a bullet list: one line - [[Name|Title]] for each result
IsList(md) ==
    /\ Len(lines_of(md)) = Len(sorted)
    /\ \A k \in 1..Len(sorted) :
           /\ starts_with(lines_of(md)[k], <<"-", " ", "[", "[">> \o name_of(sorted[k]) \o <<"|">>)
           /\ ends_with(lines_of(md)[k], title_of(page_index[sorted[k]]) \o <<"]", "]">>)

AutoColumns ==
    /\ pc = "rendered"
    /\ results # <<>>
    /\ options.properties = <<>>
    /\ options.table # Some(FALSE)

\* the property keys of the page at index position k
keys_of(k) == { page_index[k].properties[j][1] : j \in 1..Len(page_index[k].properties) }

\* the number of results that have the property key
occurrences(key) == Cardinality({ i \in 1..Len(results) : key \in keys_of(results[i]) })

\* the properties that occur in at least least results, system properties aside
Frequent(least) ==
    { key \in UNION { keys_of(results[i]) : i \in 1..Len(results) } :
          key \notin SystemProperties /\ occurrences(key) >= least }

\* the keys of S before key: those more frequent, and of those as frequent the
\* ones of a lesser name
ahead_of(key, S) ==
    { o \in S : \/ occurrences(o) > occurrences(key)
                \/ occurrences(o) = occurrences(key) /\ cmp(o, key) = "Less" }

\* page, then the first three keys of S
columns_from(S) ==
    [c \in 1..(1 + (IF Cardinality(S) < 3 THEN Cardinality(S) ELSE 3)) |->
        IF c = 1 THEN <<"p", "a", "g", "e">>
        ELSE CHOOSE key \in S : Cardinality(ahead_of(key, S)) = c - 2]

\* the header row of the table rendered
header_of(md) == lines_of(md)[1]

\* C14: with no explicit columns the columns are page, then at most 3 properties:
\* those, other than title, icon, public, alias, aliases, that occur in at least
\* ceil(n/3) of the n results, by descending frequency, then ascending name
C14_AutoColumns ==
    AutoColumns =>
        header_of(markdown) = <<"|">> \o header_row(columns_from(Frequent((Len(results) + 2) \div 3)))

\* what the code does, tags aside: the least number of results is n/3 rounded
\* down, and 1 when that is 0
AutoColumnsRoundDown ==
    (AutoColumns /\ \A i \in 1..Len(results) : page_index[results[i]].tags = <<>>) =>
        header_of(markdown) =
            <<"|">> \o header_row(columns_from(Frequent(
                IF Len(results) \div 3 > 1 THEN Len(results) \div 3 ELSE 1)))

\* and: page is the first column, and at most 3 columns follow it
AutoColumnsPageFirst ==
    AutoColumns =>
        /\ starts_with(header_of(markdown), <<"|", " ", "P", "a", "g", "e", " ", "|">>)
        /\ Cardinality({ i \in 1..Len(header_of(markdown)) : header_of(markdown)[i] = "|" }) <= 5


(***************************************************************************)
(* content.rs: the repair of tables written in bullets.                    *)
(***************************************************************************)
\* str::lines: the lines without their terminators; a final empty line is none
lines(s) ==
    LET cut == lines_of(s)
        kept == IF cut[Len(cut)] = <<>> THEN SubSeq(cut, 1, Len(cut) - 1) ELSE cut
    IN  [k \in 1..Len(kept) |->
            IF ends_with(kept[k], <<"\r">>) THEN SubSeq(kept[k], 1, Len(kept[k]) - 1)
            ELSE kept[k]]

\* str::matches(c).count()
count_char(s, c) == Cardinality({ i \in 1..Len(s) : s[i] = c })

\* usize::saturating_sub(1)
saturating_pred(n) == IF n = 0 THEN 0 ELSE n - 1

is_separator_row(line) ==
    LET trimmed == trim(line)
    IN  /\ starts_with(trimmed, <<"|">>)
        /\ ends_with(trimmed, <<"|">>)
        /\ \A i \in 1..Len(trimmed) : trimmed[i] \in {"|", "-", ":", " "}
        /\ contains_char(trimmed, "-")

get_line_prefix(line) ==
    IF contains_char(line, "|") THEN SubSeq(line, 1, find_char(line, "|", 1) - 1) ELSE <<>>

get_continuation_prefix(first_prefix) ==
    IF contains(first_prefix, <<"-", " ">>)
    THEN LET pos == CHOOSE p \in 1..Len(first_prefix) :
                        /\ at(first_prefix, p, <<"-", " ">>)
                        /\ \A q \in (p + 1)..Len(first_prefix) : ~at(first_prefix, q, <<"-", " ">>)
         IN  SubSeq(first_prefix, 1, pos - 1) \o <<" ", " ">> \o from(first_prefix, pos + 2)
    ELSE IF ends_with(first_prefix, <<"-">>)
    THEN SubSeq(first_prefix, 1, Len(first_prefix) - 1) \o <<" ">>
    ELSE first_prefix

\* fix_tables: the part of the line after its bullet
after_bullet(line) == trim_start(from(trim(line), span_end(trim(line), 1, {"-"})))

\* fix_tables: the line starts a table
is_table_start(line) ==
    starts_with(after_bullet(line), <<"|">>) /\ count_char(after_bullet(line), "|") >= 2

\* fix_tables: the index after the continuation lines collected from index i
RECURSIVE continuation_end(_, _)
continuation_end(ls, i) ==
    IF i > Len(ls) \/ ~starts_with(trim(ls[i]), <<"|">>) THEN i
    ELSE continuation_end(ls, i + 1)

\* [&str]::join of n times "---" with "|", inside pipes
RECURSIVE dash_cells(_)
dash_cells(n) == IF n = 0 THEN <<"|">> ELSE <<"|", "-", "-", "-">> \o dash_cells(n - 1)

\* a variant that puts the synthetic separator in without dropping any row
table_output_keeps_rows(ls, first, last) ==
    LET table_contents == [k \in 1..(last - first + 1) |->
                              IF k = 1 THEN after_bullet(ls[first]) ELSE trim(ls[first + k - 1])]
        header_col_count == saturating_pred(count_char(table_contents[1], "|"))
        has_valid_separator ==
            \E k \in 1..Len(table_contents) :
                /\ is_separator_row(table_contents[k])
                /\ saturating_pred(count_char(table_contents[k], "|")) = header_col_count
        separator ==
            IF ~has_valid_separator /\ Len(table_contents) > 1 /\ header_col_count > 0
            THEN << get_continuation_prefix(get_line_prefix(ls[first]))
                    \o dash_cells(header_col_count) >>
            ELSE <<>>
    IN  <<ls[first]>> \o separator \o SubSeq(ls, first + 1, last)

\* fix_tables: what is pushed for the table of the lines first..last of ls
table_output(ls, first, last) ==
    LET table_contents == [k \in 1..(last - first + 1) |->
                              IF k = 1 THEN after_bullet(ls[first]) ELSE trim(ls[first + k - 1])]
        header_col_count == saturating_pred(count_char(table_contents[1], "|"))
        has_valid_separator ==
            \E k \in 1..Len(table_contents) :
                /\ is_separator_row(table_contents[k])
                /\ saturating_pred(count_char(table_contents[k], "|")) = header_col_count
        separator ==
            IF ~has_valid_separator /\ Len(table_contents) > 1 /\ header_col_count > 0
            THEN << get_continuation_prefix(get_line_prefix(ls[first]))
                    \o dash_cells(header_col_count) >>
            ELSE <<>>
        kept == SelectSeq([k \in 1..(Len(table_contents) - 1) |-> k + 1],
                          LAMBDA k : ~(/\ is_separator_row(table_contents[k])
                                       /\ saturating_pred(count_char(table_contents[k], "|"))
                                              # header_col_count))
    IN  <<ls[first]>> \o separator \o [k \in 1..Len(kept) |-> ls[first + kept[k] - 1]]

\* fix_tables: the loop over the lines, from line i with the lines pushed so far
RECURSIVE fix_loop(_, _, _)
fix_loop(ls, i, pushed) ==
    IF i > Len(ls) THEN pushed
    ELSE IF is_table_start(ls[i])
    THEN fix_loop(ls, continuation_end(ls, i + 1),
                  pushed \o table_output(ls, i, continuation_end(ls, i + 1) - 1))
    ELSE fix_loop(ls, i + 1, Append(pushed, ls[i]))

fix_tables(text) == join(fix_loop(lines(text), 1, <<>>), <<"\n">>)


(***************************************************************************)
(* The texts with a table explored: lines of text, then a table block of a *)
(* header and rows, then lines of text.                                    *)
(***************************************************************************)
TableHeaders ==
    { <<"-", " ", "|", " ", "a", " ", "|", " ", "b", " ", "|">>, <<"\t">> \o <<"-", " ", "|", " ", "a", " ", "|", " ", "b", " ", "|", " ", "c", " ", "|">>, <<"|", " ", "a", " ", "|">>, <<"-", " ", "|", "-", "-", "-", "|", "-", "-", "-", "|">> }

TableRows ==
    { <<" ", " ", "|", " ", "1", " ", "|", " ", "2", " ", "|">>, <<" ", " ", "|", "-", "-", "-", "|", "-", "-", "-", "|">>, <<" ", " ", "|", " ", "-", "-", "-", " ", "|">>, <<"\t">> \o <<" ", " ", "|", ":", "-", "|", "-", "|", "-", "|">>, <<" ", " ", "|", " ", "x", " ", "|">> }

RECURSIVE SeqsUpTo(_, _)
SeqsUpTo(S, n) ==
    IF n = 0 THEN { <<>> }
    ELSE SeqsUpTo(S, n - 1) \cup
         { Append(q, x) : q \in { r \in SeqsUpTo(S, n - 1) : Len(r) = n - 1 }, x \in S }

TableBlock(before, header, rows, after) ==
    [before |-> before, header |-> header, rows |-> rows, after |-> after]

TableBlocks ==
    { TableBlock(before, header, rows, after) :
          before \in { <<>>, <<<<"t", "e", "x", "t">>>> },
          header \in TableHeaders,
          rows \in SeqsUpTo(TableRows, MaxRows),
          after \in { <<>>, <<<<"-", " ", "x">>, <<"y">>>> } }

\* the text of a block: its lines, each but the last ended by a newline
block_text(b) == join(b.before \o <<b.header>> \o b.rows \o b.after, <<"\n">>)

InitTables ==
    /\ parts \in TableBlocks
    /\ content = block_text(parts)
    /\ pc = "idle"
    /\ page_index = <<>>
    /\ link = <<>>
    /\ final_link = <<>>
    /\ result = <<>>
    /\ query_ast = <<>>
    /\ query_str = <<>>
    /\ results = <<>>
    /\ query_parts = <<>>
    /\ options = <<>>
    /\ sorted = <<>>
    /\ markdown = <<>>
    /\ NoRun

FixTables ==
    /\ pc = "idle"
    /\ result' = fix_tables(content)
    /\ pc' = "tables"
    /\ UNCHANGED <<page_index, link, final_link, parts, content, queryVars, renderVars, runVars>>

NextTables == FixTables

SpecTables == InitTables /\ [][NextTables]_vars

(***************************************************************************)
(* Table repair.                                                           *)
(***************************************************************************)
\* the line, spaces and tabs around it aside
stripped(line) ==
    LET inner == { i \in 1..Len(line) : line[i] \notin {" ", "\t"} }
    IN  IF inner = {} THEN <<>>
        ELSE SubSeq(line, CHOOSE i \in inner : \A j \in inner : i <= j,
                          CHOOSE i \in inner : \A j \in inner : j <= i)

\* the number of columns of a row: its pipes less one
Columns(row) == Cardinality({ i \in 1..Len(row) : row[i] = "|" }) - 1

\* a row shaped as a separator: only pipes, dashes, colons and spaces between a
\* first and a last pipe, with a dash
SeparatorShaped(row) ==
    /\ Len(stripped(row)) >= 2
    /\ stripped(row)[1] = "|"
    /\ stripped(row)[Len(stripped(row))] = "|"
    /\ \A i \in 1..Len(stripped(row)) : stripped(row)[i] \in {"|", "-", ":", " "}
    /\ \E i \in 1..Len(stripped(row)) : stripped(row)[i] = "-"

\* the line from its first pipe on: the row without indentation and bullet
cells(line) == SubSeq(line, CHOOSE i \in 1..Len(line) :
                                  line[i] = "|" /\ \A j \in 1..(i - 1) : line[j] # "|",
                      Len(line))

\* the rows of the block composed
BlockLines == [k \in 1..(1 + Len(parts.rows)) |->
                  IF k = 1 THEN cells(parts.header) ELSE cells(parts.rows[k - 1])]

\* the block has a separator of as many columns as its header
HasSeparator ==
    \E k \in 1..Len(BlockLines) :
        SeparatorShaped(BlockLines[k]) /\ Columns(BlockLines[k]) = Columns(parts.header)

\* a synthetic separator of n dash cells
IsSynthetic(line, n) ==
    /\ Columns(line) = n
    /\ \A i \in 1..Len(stripped(line)) : stripped(line)[i] \in {"|", "-"}
    /\ stripped(line)[1] = "|"
    /\ \A i \in 1..(Len(stripped(line)) - 1) :
           stripped(line)[i] = "|" => stripped(line)[i + 1] = "-"

\* the rows that are not separator-shaped with a column count other than the header's
RowsKept ==
    SelectSeq(parts.rows,
              LAMBDA row : ~(SeparatorShaped(row) /\ Columns(row) # Columns(parts.header)))

\* the output is the text around the block with, between, the header, a synthetic
\* separator and the rows kept
Repaired ==
    LET out == lines_of(result)
        n == Len(parts.before)
    IN  /\ Len(out) = n + 2 + Len(RowsKept) + Len(parts.after)
        /\ SubSeq(out, 1, n) = parts.before
        /\ out[n + 1] = parts.header
        /\ IsSynthetic(out[n + 2], Columns(parts.header))
        /\ SubSeq(out, n + 3, n + 2 + Len(RowsKept)) = RowsKept
        /\ SubSeq(out, n + 3 + Len(RowsKept), Len(out)) = parts.after

\* the output is the text around the block with, between, the header and the rows kept
WithoutCorruptRows ==
    lines_of(result) = parts.before \o <<parts.header>> \o RowsKept \o parts.after

Nul == "U+0000"

\* usize::to_string
RECURSIVE decimal(_)
decimal(n) ==
    IF n < 10 THEN << <<"0", "1", "2", "3", "4", "5", "6", "7", "8", "9">>[n + 1] >>
    ELSE decimal(n \div 10) \o decimal(n % 10)

\* format!("\x00WIKILINK{}\x00", n)
placeholder(n) == <<Nul>> \o <<"W", "I", "K", "I", "L", "I", "N", "K">> \o decimal(n) \o <<Nul>>

\* WIKILINK_PLACEHOLDER_RE = (!?\[\[[^\]]+\]\]) matched at index i of s: the index
\* after the match, 0 for no match
span_match_end(s, i) ==
    LET open == IF at(s, i, <<"!">>) THEN i + 1 ELSE i
        close == run_end(s, open + 2, {"]"})
    IN  IF at(s, open, <<"[", "[">>) /\ close > open + 2 /\ at(s, close, <<"]", "]">>)
        THEN close + 2
        ELSE 0

\* the start of the leftmost match at or after index i, 0 for none
next_span(s, i) ==
    IF \E p \in i..Len(s) : span_match_end(s, p) # 0
    THEN CHOOSE p \in i..Len(s) :
             span_match_end(s, p) # 0 /\ \A q \in i..(p - 1) : span_match_end(s, q) = 0
    ELSE 0

\* step 1: every match replaced by a placeholder; the text protected and the
\* spans taken out, from index i of s
RECURSIVE protect(_, _, _, _)
protect(s, i, text, placeholders) ==
    IF next_span(s, i) = 0
    THEN [text |-> text \o from(s, i), placeholders |-> placeholders]
    ELSE protect(s, span_match_end(s, next_span(s, i)),
                 text \o SubSeq(s, i, next_span(s, i) - 1) \o placeholder(Len(placeholders)),
                 Append(placeholders,
                        SubSeq(s, next_span(s, i), span_match_end(s, next_span(s, i)) - 1)))

UpperCase == DOMAIN CaseMap \ TwoByteChars

\* the index after the token ([A-Z][A-Z0-9]*) or amount (\d[\d,.]*[kKmMbB]?) that
\* starts at index i of s, 0 when none starts there
token_end(s, i, currency) ==
    IF i > Len(s) THEN 0
    ELSE IF currency
    THEN IF s[i] \notin Digits THEN 0
         ELSE LET e == span_end(s, i + 1, Digits \cup {",", "."})
              IN  IF e <= Len(s) /\ s[e] \in {"k", "K", "m", "M", "b", "B"} THEN e + 1 ELSE e
    ELSE IF s[i] \notin UpperCase THEN 0
         ELSE span_end(s, i + 1, UpperCase \cup Digits)

\* DOLLAR_TOKEN_RE = (^|[^\\])\$([A-Z][A-Z0-9]*) and DOLLAR_CURRENCY_RE =
\* (^|[^\\])\$(\d[\d,.]*[kKmMbB]?) matched at index q of s: the index of the dollar
\* sign, 0 for no match
dollar_at(s, q, currency) ==
    IF q = 1 /\ at(s, 1, <<"$">>) /\ token_end(s, 2, currency) # 0 THEN 1
    ELSE IF q <= Len(s) /\ s[q] # "\\" /\ at(s, q + 1, <<"$">>)
            /\ token_end(s, q + 2, currency) # 0
    THEN q + 1
    ELSE 0

\* the start of the leftmost match at or after index i, 0 for none
next_dollar(s, i, currency) ==
    IF \E q \in i..Len(s) : dollar_at(s, q, currency) # 0
    THEN CHOOSE q \in i..Len(s) :
             dollar_at(s, q, currency) # 0 /\ \A o \in i..(q - 1) : dollar_at(s, o, currency) = 0
    ELSE 0

\* steps 2 and 3: replace_all with prefix, backslash, dollar sign, token
RECURSIVE escape_dollars(_, _, _)
escape_dollars(s, i, currency) ==
    IF next_dollar(s, i, currency) = 0 THEN from(s, i)
    ELSE LET dollar == dollar_at(s, next_dollar(s, i, currency), currency)
             end == token_end(s, dollar + 1, currency)
         IN  SubSeq(s, i, dollar - 1) \o <<"\\", "$">> \o SubSeq(s, dollar + 1, end - 1)
             \o escape_dollars(s, end, currency)

\* str::replace(pattern, to) from index i of s
RECURSIVE replace_str(_, _, _, _)
replace_str(s, i, pattern, to) ==
    IF \E p \in i..Len(s) : at(s, p, pattern)
    THEN LET p == CHOOSE p \in i..Len(s) :
                      at(s, p, pattern) /\ \A q \in i..(p - 1) : ~at(s, q, pattern)
         IN  SubSeq(s, i, p - 1) \o to \o replace_str(s, p + Len(pattern), pattern, to)
    ELSE from(s, i)

\* step 4: the placeholders restored, from the i-th on
RECURSIVE restore(_, _, _)
restore(s, placeholders, i) ==
    IF i > Len(placeholders) THEN s
    ELSE restore(replace_str(s, 1, placeholder(i - 1), placeholders[i]), placeholders, i + 1)

\* a variant that escapes on the text as it is, spans included
escape_dollars_in_wikilinks(text) ==
    escape_dollars(escape_dollars(text, 1, FALSE), 1, TRUE)

escape_dollars_outside_wikilinks(text) ==
    LET protected == protect(text, 1, <<>>, <<>>)
        escaped == escape_dollars(escape_dollars(protected.text, 1, FALSE), 1, TRUE)
    IN  restore(escaped, protected.placeholders, 1)

(***************************************************************************)
(* The texts with dollar signs explored: pieces of text and spans.         *)
(***************************************************************************)
DollarTexts ==
    { <<"$", "A">>, <<"$", "A", "B", "1", " ">>, <<"$", "5", ",">>, <<"$", "1", ".", "5", "k">>, <<" ", "$", "x", "^", "2", "$", " ">>, <<"\\">> \o <<"$", "B">>, <<"a">>, <<"$">> }

DollarSpans ==
    { LinkPart(<<>>, <<"$", "B">>, <<>>), LinkPart(<<"!">>, <<"a", " ", "$", "1", " ", "b">>, <<>>),
      LinkPart(<<>>, <<"x">>, <<"|", "$", "C">>) }

DollarContents == SeqsUpTo({ TextPart(t) : t \in DollarTexts } \cup DollarSpans, MaxPieces)

InitDollars ==
    /\ parts \in DollarContents
    /\ content = render(parts)
    /\ pc = "idle"
    /\ page_index = <<>>
    /\ link = <<>>
    /\ final_link = <<>>
    /\ result = <<>>
    /\ query_ast = <<>>
    /\ query_str = <<>>
    /\ results = <<>>
    /\ query_parts = <<>>
    /\ options = <<>>
    /\ sorted = <<>>
    /\ markdown = <<>>
    /\ NoRun

EscapeDollars ==
    /\ pc = "idle"
    /\ result' = escape_dollars_outside_wikilinks(content)
    /\ pc' = "dollars"
    /\ UNCHANGED <<page_index, link, final_link, parts, content, queryVars, renderVars, runVars>>

NextDollars == EscapeDollars

SpecDollars == InitDollars /\ [][NextDollars]_vars


(***************************************************************************)
(* Dollar signs and spans.                                                 *)
(***************************************************************************)
\* the index after the text t in the output read from index c, where a dollar sign
\* of t may stand after a backslash put in; 0 when the output does not hold t there
RECURSIVE text_end(_, _, _)
text_end(c, t, j) ==
    IF j > Len(t) THEN c
    ELSE IF t[j] = "$" /\ at(result, c, <<"\\", "$">>) THEN text_end(c + 2, t, j + 1)
    ELSE IF at(result, c, <<t[j]>>) THEN text_end(c + 1, t, j + 1)
    ELSE 0

\* the index after the first k parts of the input in the output, a span standing
\* as it was written; 0 when the output does not hold them
RECURSIVE parts_end(_)
parts_end(k) ==
    IF k = 0 THEN 1
    ELSE IF parts_end(k - 1) = 0 THEN 0
    ELSE IF parts[k].kind = "text" THEN text_end(parts_end(k - 1), parts[k].text, 1)
    ELSE IF at(result, parts_end(k - 1), part_text(parts[k]))
    THEN parts_end(k - 1) + Len(part_text(parts[k]))
    ELSE 0

\* C16: every [[...]] and ![[...]] span of the input stands in the output exactly
\* as written and in the same position, between the texts that were between the
\* spans, for any number of spans and any text between them
C16_SpansUnchanged ==
    pc = "dollars" => parts_end(Len(parts)) = Len(result) + 1

C16_Witness ==
    /\ pc = "dollars"
    /\ Cardinality({ k \in 1..Len(parts) : parts[k].kind = "link" }) >= 2
    /\ \E k \in 1..Len(parts) : parts[k].kind = "link" /\ contains_char(part_text(parts[k]), "$")
    /\ result # content
    /\ parts_end(Len(parts)) = Len(result) + 1

\* the index in the input of the first character of part k
part_start(k) == 1 + Len(render(SubSeq(parts, 1, k - 1)))

\* the index i of the input is inside a span
InSpan(i) ==
    \E k \in 1..Len(parts) :
        /\ parts[k].kind = "link"
        /\ i >= part_start(k)
        /\ i < part_start(k + 1)

\* the dollar sign at index i of the input starts a currency amount or an
\* all-caps token outside the spans, and no backslash stands before it
ToEscape(i) ==
    /\ content[i] = "$"
    /\ ~InSpan(i)
    /\ i < Len(content)
    /\ ~InSpan(i + 1)
    /\ content[i + 1] \in Digits \cup UpperCase
    /\ (i = 1 \/ content[i - 1] # "\\")

\* the input with a backslash before each dollar sign of the set at
RECURSIVE with_backslashes(_, _)
with_backslashes(i, at_indexes) ==
    IF i > Len(content) THEN <<>>
    ELSE (IF i \in at_indexes THEN <<"\\", content[i]>> ELSE <<content[i]>>)
         \o with_backslashes(i + 1, at_indexes)

\* C17: outside the spans every dollar sign that starts a currency amount or an
\* all-caps token and has no backslash before it has exactly one backslash before
\* it in the output, and nothing else is changed
C17_DollarsEscaped ==
    pc = "dollars" =>
        result = with_backslashes(1, { i \in 1..Len(content) : ToEscape(i) })

\* the character at index i can end a match of the kind that would start at i + 1
EndsMatch(i) ==
    IF content[i + 2] \in Digits
    THEN content[i] \in Digits \cup {",", ".", "k", "K", "m", "M", "b", "B"}
    ELSE content[i] \in UpperCase \cup Digits

\* what the code does: a dollar sign is escaped when the character before it is
\* not the end of the token or amount escaped before it
DollarsEscapedAfterOtherText ==
    (pc = "dollars"
        /\ \A i \in 2..Len(content) : ToEscape(i) => ~EndsMatch(i - 1)) =>
        result = with_backslashes(1, { i \in 1..Len(content) : ToEscape(i) })


(***************************************************************************)
(* content.rs: the conversion of properties to bullets.                    *)
(***************************************************************************)
\* (?m)^ at index p of s
line_start(s, p) == p = 1 \/ (p >= 2 /\ p <= Len(s) + 1 /\ s[p - 1] = "\n")

\* ([\w-]+):: (.+)$ matched at index b of s: the index after the key and the index
\* after the value, <<0, 0>> for no match
key_value_at(s, b) ==
    LET key_end == span_end(s, b, WordChars \cup {"-"})
        value_end == run_end(s, key_end + 3, {"\n"})
    IN  IF key_end > b /\ at(s, key_end, <<":", ":", " ">>) /\ value_end > key_end + 3
        THEN <<key_end, value_end>>
        ELSE <<0, 0>>

\* USER_PROPS_RE = (?m)^(\s*)(?:-\s*)?([\w-]+):: (.+)$ matched at index p of s: the
\* three captures and the index after the match
USER_PROPS_RE_at(s, p) ==
    LET ws_end == span_end(s, p, WhiteSpace)
        bullet_end == IF at(s, ws_end, <<"-">>) THEN span_end(s, ws_end + 1, WhiteSpace) ELSE 0
        key_start == IF bullet_end # 0 /\ key_value_at(s, bullet_end)[1] # 0 THEN bullet_end
                     ELSE ws_end
        ends == key_value_at(s, key_start)
    IN  IF line_start(s, p) /\ ends[1] # 0
        THEN [ok |-> TRUE,
              indent |-> SubSeq(s, p, ws_end - 1),
              key |-> SubSeq(s, key_start, ends[1] - 1),
              value |-> SubSeq(s, ends[1] + 3, ends[2] - 1),
              end |-> ends[2]]
        ELSE NoMatch

\* str::split(c)
RECURSIVE split(_, _)
split(s, c) ==
    IF ~contains_char(s, c) THEN <<s>>
    ELSE <<SubSeq(s, 1, find_char(s, c, 1) - 1)>> \o split(from(s, find_char(s, c, 1) + 1), c)

\* the key in title case: the words between dashes, each with its first letter in
\* upper case, joined by spaces
formatted_key(key) ==
    join([w \in 1..Len(split(key, "-")) |->
             IF split(key, "-")[w] = <<>> THEN <<>>
             ELSE to_uppercase(<<split(key, "-")[w][1]>>) \o Tail(split(key, "-")[w])],
         <<" ">>)

\* a variant that keeps the two colons after the key
user_prop_keeps_colons(m) ==
    IF starts_with(m.key, <<"q", "u", "e", "r", "y", "-">>) THEN <<>>
    ELSE m.indent \o <<"-", " ">> \o formatted_key(m.key) \o <<":", ":", " ">> \o m.value

\* the closure handed to replace_all: the text put for the match m
user_prop_replacement(m) ==
    IF starts_with(m.key, <<"q", "u", "e", "r", "y", "-">>) THEN <<>>
    ELSE m.indent \o <<"-", " ", "*", "*">> \o formatted_key(m.key) \o <<":", "*", "*", " ">> \o m.value

\* the start of the leftmost match at or after index i, 0 for none
next_user_prop(s, i) ==
    IF \E p \in i..Len(s) : USER_PROPS_RE_at(s, p).ok
    THEN CHOOSE p \in i..Len(s) :
             USER_PROPS_RE_at(s, p).ok /\ \A q \in i..(p - 1) : ~USER_PROPS_RE_at(s, q).ok
    ELSE 0

\* USER_PROPS_RE.replace_all from index i of s
RECURSIVE replace_user_props(_, _)
replace_user_props(s, i) ==
    IF next_user_prop(s, i) = 0 THEN from(s, i)
    ELSE SubSeq(s, i, next_user_prop(s, i) - 1)
         \o user_prop_replacement(USER_PROPS_RE_at(s, next_user_prop(s, i)))
         \o replace_user_props(s, USER_PROPS_RE_at(s, next_user_prop(s, i)).end)

\* transform: the conversion of user properties
convert_user_props(text) == replace_user_props(text, 1)

(***************************************************************************)
(* The texts with properties explored.                                     *)
(***************************************************************************)
PropertyLines ==
    { <<"t", "y", "p", "e", ":", ":", " ", "b", "o", "o", "k">>, <<"-", " ", "a", "-", "b", ":", ":", " ", "c", ":", ":", " ", "d">>, <<"\t">> \o <<"-", " ", "x", ":", ":", " ", "1">>, <<"q", "u", "e", "r", "y", "-", "t", "a", "b", "l", "e", ":", ":", " ", "f", "a", "l", "s", "e">>,
      <<"-", ":", ":", " ", "v">>, <<"t", "e", "x", "t">>, <<>>, <<"-">>, <<"k", ":", ":">> }

PropertyContents == { join(ls, <<"\n">>) : ls \in SeqsUpTo(PropertyLines, MaxLines) }

InitProps ==
    /\ content \in PropertyContents
    /\ pc = "idle"
    /\ page_index = <<>>
    /\ link = <<>>
    /\ final_link = <<>>
    /\ parts = <<>>
    /\ result = <<>>
    /\ query_ast = <<>>
    /\ query_str = <<>>
    /\ results = <<>>
    /\ query_parts = <<>>
    /\ options = <<>>
    /\ sorted = <<>>
    /\ markdown = <<>>
    /\ NoRun

ConvertProps ==
    /\ pc = "idle"
    /\ result' = convert_user_props(content)
    /\ pc' = "props"
    /\ UNCHANGED <<page_index, link, final_link, parts, content, queryVars, renderVars, runVars>>

\* the conversion run again, on its own output
ConvertPropsAgain ==
    /\ pc = "props"
    /\ content' = result
    /\ result' = convert_user_props(result)
    /\ pc' = "props again"
    /\ UNCHANGED <<page_index, link, final_link, parts, queryVars, renderVars, runVars>>

NextProps == ConvertProps \/ ConvertPropsAgain

SpecProps == InitProps /\ [][NextProps]_vars

(***************************************************************************)
(* Property conversion run twice.                                          *)
(***************************************************************************)
\* the line is key:: value, after indentation and an optional bullet
IsPropertyLine(line) ==
    \E k \in 1..Len(line), c \in 1..Len(line) :
        /\ k <= c
        /\ \A i \in k..c : line[i] \in WordChars \cup {"-"}
        /\ Len(line) >= c + 4
        /\ line[c + 1] = ":" /\ line[c + 2] = ":" /\ line[c + 3] = " "
        /\ \/ \A i \in 1..(k - 1) : line[i] \in {" ", "\t"}
           \/ \E d \in 1..(k - 1) :
                  /\ line[d] = "-"
                  /\ \A i \in 1..(k - 1) : i # d => line[i] \in {" ", "\t"}

HasPropertyLine(text) == \E k \in 1..Len(lines_of(text)) : IsPropertyLine(lines_of(text)[k])

\* C18: the conversion returns a text without key:: value lines unchanged, its output
\* is such a text, and run on its own output it returns that output
C18_PropsIdempotent ==
    /\ pc = "props" =>
           /\ ~HasPropertyLine(content) => result = content
           /\ ~HasPropertyLine(result)
    /\ pc = "props again" => result = content

C18_Witness ==
    /\ pc = "props again"
    /\ result = content
    /\ contains(content, <<"-", " ", "*", "*", "A", " ", "B", ":", "*", "*", " ", "c", ":", ":", " ", "d">>)
    /\ contains(content, <<"-", " ", "*", "*", "X", ":", "*", "*", " ", "1">>)


(***************************************************************************)
(* content.rs: the conversion of task markers to checkboxes.               *)
(***************************************************************************)
\* the emoji characters, by code point
Arrows == "U+1F504"
Calendar == "U+1F4C5"
Hourglass == "U+23F3"
Cross == "U+274C"

\* the seven markers in the order transform applies them, each with the text put
\* after the indentation
TaskMarkers ==
    << <<<<"D", "O", "N", "E">>, <<"-", " ", "[", "x", "]", " ">>>>,
       <<<<"T", "O", "D", "O">>, <<"-", " ", "[", " ", "]", " ">>>>,
       <<<<"N", "O", "W">>, <<"-", " ", "[", " ", "]", " ">> \o <<Arrows, " ">>>>,
       <<<<"D", "O", "I", "N", "G">>, <<"-", " ", "[", " ", "]", " ">> \o <<Arrows, " ">>>>,
       <<<<"L", "A", "T", "E", "R">>, <<"-", " ", "[", " ", "]", " ">> \o <<Calendar, " ">>>>,
       <<<<"W", "A", "I", "T", "I", "N", "G">>, <<"-", " ", "[", " ", "]", " ">> \o <<Hourglass, " ">>>>,
       <<<<"C", "A", "N", "C", "E", "L", "L", "E", "D">>, <<"-", " ", "[", "x", "]", " ">> \o <<Cross, " ">>>> >>

\* (?m)^(\s*)-\s+MARKER\s+ matched at index p of s: the index after the first
\* capture and the index after the match, <<0, 0>> for no match
task_at(s, p, marker) ==
    LET dash == span_end(s, p, WhiteSpace)
        word == span_end(s, dash + 1, WhiteSpace)
        end == span_end(s, word + Len(marker), WhiteSpace)
    IN  IF /\ line_start(s, p)
           /\ at(s, dash, <<"-">>)
           /\ word > dash + 1
           /\ at(s, word, marker)
           /\ end > word + Len(marker)
        THEN <<dash, end>>
        ELSE <<0, 0>>

\* the start of the leftmost match at or after index i, 0 for none
next_task(s, i, marker) ==
    IF \E p \in i..Len(s) : task_at(s, p, marker)[1] # 0
    THEN CHOOSE p \in i..Len(s) :
             task_at(s, p, marker)[1] # 0 /\ \A q \in i..(p - 1) : task_at(s, q, marker)[1] = 0
    ELSE 0

\* replace_all of one marker by "$1" and the checkbox, from index i of s
RECURSIVE replace_tasks(_, _, _, _)
replace_tasks(s, i, marker, checkbox) ==
    IF next_task(s, i, marker) = 0 THEN from(s, i)
    ELSE SubSeq(s, i, task_at(s, next_task(s, i, marker), marker)[1] - 1)
         \o checkbox
         \o replace_tasks(s, task_at(s, next_task(s, i, marker), marker)[2], marker, checkbox)

\* transform: the seven replacements, from the k-th on
RECURSIVE convert_tasks_from(_, _)
convert_tasks_from(text, k) ==
    IF k > Len(TaskMarkers) THEN text
    ELSE convert_tasks_from(replace_tasks(text, 1, TaskMarkers[k][1], TaskMarkers[k][2]), k + 1)

convert_tasks(text) == convert_tasks_from(text, 1)

(***************************************************************************)
(* The texts with tasks explored.                                          *)
(***************************************************************************)
TaskLines ==
    { <<"-", " ", "T", "O", "D", "O", " ", "B", "u", "y", " ", "m", "i", "l", "k">>, <<" ", " ", "-", " ", "D", "O", "N", "E", " ", "x">>, <<"-", " ", " ", "N", "O", "W", " ", "a">>, <<"-", " ", "D", "O", "I", "N", "G", " ", "b", " ", "c">>, <<"-", " ", "L", "A", "T", "E", "R", " ", "c">>,
      <<"\t">> \o <<"-", " ", "W", "A", "I", "T", "I", "N", "G", " ", "d">>, <<"-", " ", "C", "A", "N", "C", "E", "L", "L", "E", "D", " ", "e">>, <<"-", " ", "T", "O", "D", "O">>, <<"-", " ", "b">>, <<"T", "O", "D", "O", " ", "x">> }

TaskContents == { join(ls, <<"\n">>) : ls \in SeqsUpTo(TaskLines, MaxLines) }

InitTasks ==
    /\ content \in TaskContents
    /\ pc = "idle"
    /\ page_index = <<>>
    /\ link = <<>>
    /\ final_link = <<>>
    /\ parts = <<>>
    /\ result = <<>>
    /\ query_ast = <<>>
    /\ query_str = <<>>
    /\ results = <<>>
    /\ query_parts = <<>>
    /\ options = <<>>
    /\ sorted = <<>>
    /\ markdown = <<>>
    /\ NoRun

ConvertTasks ==
    /\ pc = "idle"
    /\ result' = convert_tasks(content)
    /\ pc' = "tasks"
    /\ UNCHANGED <<page_index, link, final_link, parts, content, queryVars, renderVars, runVars>>

NextTasks == ConvertTasks

SpecTasks == InitTasks /\ [][NextTasks]_vars

(***************************************************************************)
(* Task markers.                                                           *)
(***************************************************************************)
\* the place of the bullet of the line, 0 when the line is no bullet line
bullet_of(line) ==
    IF \E d \in 1..Len(line) : line[d] = "-" /\ \A i \in 1..(d - 1) : line[i] \in {" ", "\t"}
    THEN CHOOSE d \in 1..Len(line) : line[d] = "-" /\ \A i \in 1..(d - 1) : line[i] \in {" ", "\t"}
    ELSE 0

\* the line after its bullet and the spaces after the bullet
after_marker_gap(line) ==
    SubSeq(line, CHOOSE i \in (bullet_of(line) + 1)..(Len(line) + 1) :
                     /\ \A j \in (bullet_of(line) + 1)..(i - 1) : line[j] \in {" ", "\t"}
                     /\ (i = Len(line) + 1 \/ line[i] \notin {" ", "\t"}),
           Len(line))

\* the markers the bullet line begins with: the marker stands after the bullet and
\* at least one space, and a space stands after it
markers_of(line) ==
    { k \in 1..Len(TaskMarkers) :
          /\ bullet_of(line) # 0
          /\ bullet_of(line) < Len(line)
          /\ line[bullet_of(line) + 1] \in {" ", "\t"}
          /\ Len(after_marker_gap(line)) > Len(TaskMarkers[k][1])
          /\ SubSeq(after_marker_gap(line), 1, Len(TaskMarkers[k][1])) = TaskMarkers[k][1]
          /\ after_marker_gap(line)[Len(TaskMarkers[k][1]) + 1] \in {" ", "\t"} }

\* the text of a task line after its marker and the spaces after the marker
task_text(line, k) ==
    LET rest == SubSeq(after_marker_gap(line), Len(TaskMarkers[k][1]) + 1,
                       Len(after_marker_gap(line)))
        gap == { i \in 1..Len(rest) : rest[i] \notin {" ", "\t"} }
    IN  IF gap = {} THEN <<>>
        ELSE SubSeq(rest, CHOOSE i \in gap : \A j \in gap : i <= j, Len(rest))

\* the line as the claim has it after the conversion
converted_line(line) ==
    IF markers_of(line) = {} THEN line
    ELSE LET k == CHOOSE k \in markers_of(line) : TRUE
         IN  SubSeq(line, 1, bullet_of(line) - 1) \o TaskMarkers[k][2] \o task_text(line, k)

\* C19: every bullet line that begins with one of the seven task markers becomes one
\* checkbox line, checked for DONE and CANCELLED and unchecked for the others, with
\* the marker's emoji, its indentation and the text after the marker kept; no other
\* line is changed, joined or removed
C19_TaskCheckboxes ==
    pc = "tasks" =>
        lines_of(result) = [k \in 1..Len(lines_of(content)) |-> converted_line(lines_of(content)[k])]

\* what the code does: the same, when no line ends with its marker
TaskCheckboxesOfLinesWithText ==
    (pc = "tasks"
        /\ \A k \in 1..Len(lines_of(content)) :
               \A m \in 1..Len(TaskMarkers) :
                   ~ends_with(lines_of(content)[k], TaskMarkers[m][1])) =>
        lines_of(result) = [k \in 1..Len(lines_of(content)) |-> converted_line(lines_of(content)[k])]


(***************************************************************************)
(* Totality of the rendering.                                              *)
(***************************************************************************)
\* C22: results_to_markdown_with_options returns a value for every query text and
\* index and never aborts; an empty result is rendered as the callout that quotes
\* the query text, cut to 80 when it is longer
C22_RenderingIsTotal ==
    pc = "rendered" => markdown # Panic

\* what the code does: it returns a value when the query text has at most 80 bytes
\* or its byte 80 ends a character
RenderingIsTotalOnCharBoundary ==
    (pc = "rendered" /\ (byte_len(query_str) <= 80 \/ byte_len(byte_prefix(query_str, 80)) = 80)) =>
        markdown # Panic


(***************************************************************************)
(* query.rs: parse_query_options.                                          *)
(***************************************************************************)
\* the leftmost index at or after i where p stands in s, 0 for none
find_from(s, p, i) ==
    IF \E k \in i..Len(s) : at(s, k, p)
    THEN CHOOSE k \in i..Len(s) : at(s, k, p) /\ \A j \in i..(k - 1) : ~at(s, j, p)
    ELSE 0

\* key::\s*(true|false) matched at index k of s, the key given with its colons
bool_option_at(s, key, k) ==
    /\ at(s, k, key)
    /\ \/ at(s, skip_whitespace(s, k + Len(key)), <<"t", "r", "u", "e">>)
       \/ at(s, skip_whitespace(s, k + Len(key)), <<"f", "a", "l", "s", "e">>)

\* QUERY_SORT_DESC_RE, QUERY_TABLE_RE: Some(the capture is "true") of the leftmost
\* match, None for no match
bool_option(s, key) ==
    IF \E k \in 1..Len(s) : bool_option_at(s, key, k)
    THEN Some(at(s, skip_whitespace(s, (CHOOSE k \in 1..Len(s) :
                        bool_option_at(s, key, k) /\ \A j \in 1..(k - 1) : ~bool_option_at(s, key, j))
                     + Len(key)), <<"t", "r", "u", "e">>))
    ELSE None

\* query-sort-by::\s*:?(\S+) matched at index k of s
sort_by_at(s, k) ==
    /\ at(s, k, <<"q", "u", "e", "r", "y", "-", "s", "o", "r", "t", "-", "b", "y", ":", ":">>)
    /\ skip_whitespace(s, k + 15) <= Len(s)

\* the capture of QUERY_SORT_BY_RE, from index v on: the colon is passed over when
\* something other than whitespace follows it
sort_by_capture(s, v) ==
    IF s[v] = ":" /\ v + 1 <= Len(s) /\ s[v + 1] \notin WhiteSpace
    THEN SubSeq(s, v + 1, run_end(s, v + 1, WhiteSpace) - 1)
    ELSE SubSeq(s, v, run_end(s, v, WhiteSpace) - 1)

QUERY_SORT_BY_RE_captures(s) ==
    IF \E k \in 1..Len(s) : sort_by_at(s, k)
    THEN Some(sort_by_capture(s, skip_whitespace(s, (CHOOSE k \in 1..Len(s) :
                        sort_by_at(s, k) /\ \A j \in 1..(k - 1) : ~sort_by_at(s, j)) + 15)))
    ELSE None

\* the start of the capture of QUERY_PROPS_RE when the bracket stands at index b
props_start(s, b) ==
    IF b + 2 <= Len(s) /\ s[b + 1] = ":" /\ s[b + 2] # "]" THEN b + 2 ELSE b + 1

\* \[:?([^\]]+)\] matched at index b of s
props_list_at(s, b) ==
    /\ b <= Len(s)
    /\ s[b] = "["
    /\ run_end(s, props_start(s, b), {"]"}) > props_start(s, b)
    /\ run_end(s, props_start(s, b), {"]"}) <= Len(s)

\* query-properties::\s*\[:?([^\]]+)\] matched at index k of s
props_at(s, k) ==
    /\ at(s, k, <<"q", "u", "e", "r", "y", "-", "p", "r", "o", "p", "e", "r", "t", "i", "e", "s", ":", ":">>)
    /\ props_list_at(s, skip_whitespace(s, k + 18))

props_capture(s, b) == SubSeq(s, props_start(s, b), run_end(s, props_start(s, b), {"]"}) - 1)

QUERY_PROPS_RE_captures(s) ==
    IF \E k \in 1..Len(s) : props_at(s, k)
    THEN Some(props_capture(s, skip_whitespace(s, (CHOOSE k \in 1..Len(s) :
                        props_at(s, k) /\ \A j \in 1..(k - 1) : ~props_at(s, j)) + 18)))
    ELSE None

\* str::split on the characters of the set cs
RECURSIVE split_any(_, _)
split_any(s, cs) ==
    IF \A i \in 1..Len(s) : s[i] \notin cs THEN <<s>>
    ELSE <<SubSeq(s, 1, run_end(s, 1, cs) - 1)>> \o split_any(from(s, run_end(s, 1, cs) + 1), cs)

\* the column names of the capture of QUERY_PROPS_RE
property_names(props_str) ==
    SelectSeq([k \in 1..Len(split_any(props_str, {",", " "})) |->
                   trim_start_matches(trim(split_any(props_str, {",", " "})[k]), <<":">>)],
              LAMBDA name : name # <<>>)

\* parse_query_options, given what the four regexes capture
options_of(props, sort, desc, table) ==
    QueryOptions(IF props = None THEN <<>> ELSE property_names(props[1]),
                 sort,
                 desc = Some(TRUE),
                 table)

parse_query_options(context) ==
    options_of(QUERY_PROPS_RE_captures(context),
               QUERY_SORT_BY_RE_captures(context),
               bool_option(context, <<"q", "u", "e", "r", "y", "-", "s", "o", "r", "t", "-", "d", "e", "s", "c", ":", ":">>),
               bool_option(context, <<"q", "u", "e", "r", "y", "-", "t", "a", "b", "l", "e", ":", ":">>))

(***************************************************************************)
(* content.rs: process_queries_with_options.                               *)
(***************************************************************************)
\* QUERY_RE = (?m)^(\s*)(-\s*)?\{\{query[^\}]*\}\} on a line whose leading
\* whitespace ends before ws_end and whose list marker ends before open
QUERY_RE_from(line, ws_end, open) ==
    IF /\ at(line, open, <<"{", "{", "q", "u", "e", "r", "y">>)
       /\ at(line, run_end(line, open + 7, {"}"}), <<"}", "}">>)
    THEN [ok |-> TRUE,
          indent |-> SubSeq(line, 1, ws_end - 1),
          list_marker |-> SubSeq(line, ws_end, open - 1),
          end |-> run_end(line, open + 7, {"}"}) + 2]
    ELSE NoMatch

QUERY_RE_marker(line, ws_end) ==
    QUERY_RE_from(line, ws_end,
                  IF at(line, ws_end, <<"-">>) THEN span_end(line, ws_end + 1, WhiteSpace) ELSE ws_end)

\* QUERY_RE.captures(line)
QUERY_RE_captures(line) == QUERY_RE_marker(line, span_end(line, 1, WhiteSpace))

\* the line is taken for a query option
is_option_line(prev_line) ==
    \/ contains(prev_line, <<"q", "u", "e", "r", "y", "-", "p", "r", "o", "p", "e", "r", "t", "i", "e", "s", ":", ":">>)
    \/ contains(prev_line, <<"q", "u", "e", "r", "y", "-", "s", "o", "r", "t", "-", "b", "y", ":", ":">>)
    \/ contains(prev_line, <<"q", "u", "e", "r", "y", "-", "s", "o", "r", "t", "-", "d", "e", "s", "c", ":", ":">>)
    \/ contains(prev_line, <<"q", "u", "e", "r", "y", "-", "t", "a", "b", "l", "e", ":", ":">>)

\* the loop over the lines already put out, from the last one up
RECURSIVE context_loop(_, _, _)
context_loop(result_lines, j, context) ==
    IF j = 0 THEN context
    ELSE IF trim(result_lines[j]) = <<>> THEN context
    ELSE IF is_option_line(result_lines[j])
    THEN context_loop(result_lines, j - 1, result_lines[j] \o <<"\n">> \o context)
    ELSE context

\* every line of the text with the prefix before it
prefixed(text, prefix) == join([k \in 1..Len(lines(text)) |-> prefix \o lines(text)[k]], <<"\n">>)

\* every line of the text without its "- " and with the prefix before it
reprefixed(text, prefix) ==
    join([k \in 1..Len(lines(text)) |-> prefix \o strip_prefix_or(lines(text)[k], <<"-", " ">>)],
         <<"\n">>)

formatted_output(caps, output) ==
    IF contains_char(output, "|") /\ contains(output, <<"-", "-", "-">>)
    THEN <<"\n">> \o prefixed(output, caps.indent)
    ELSE reprefixed(output, IF caps.list_marker = <<>> THEN caps.indent \o <<"-", " ">>
                            ELSE caps.indent \o caps.list_marker)

\* the stage has panicked in results_to_markdown_with_options
panicked(st) == st.lines # <<>> /\ st.lines[Len(st.lines)] = Panic

\* the output of a query is pushed line by line
query_emit(caps, output, opts, st) ==
    IF output = Panic THEN [lines |-> <<Panic>>, opts |-> Append(st.opts, opts)]
    ELSE [lines |-> st.lines \o lines(formatted_output(caps, output)),
          opts |-> Append(st.opts, opts)]

query_render(caps, query, opts, st, idx) ==
    query_emit(caps, results_to_markdown_with_options(execute(query, idx), idx, query, opts), opts, st)

\* one line of the loop: a query line is replaced by its output, any other line is
\* pushed as it is
query_line(line, caps, st, idx) ==
    IF ~caps.ok THEN [st EXCEPT !.lines = Append(@, line)]
    ELSE query_render(caps,
                      trim(trim_start_matches(trim(SubSeq(line, 1, caps.end - 1)), <<"-">>)),
                      parse_query_options(context_loop(st.lines, Len(st.lines), <<>>)),
                      st, idx)

\* the loop over the lines; st holds result_lines and the options of the queries so far
RECURSIVE query_loop(_, _, _, _)
query_loop(ls, i, st, idx) ==
    IF i > Len(ls) \/ panicked(st) THEN st
    ELSE query_loop(ls, i + 1, query_line(ls[i], QUERY_RE_captures(ls[i]), st, idx), idx)

joined_lines(st) == IF panicked(st) THEN Panic ELSE join(st.lines, <<"\n">>)

process_queries_with_options(text, idx) ==
    joined_lines(query_loop(lines(text), 1, [lines |-> <<>>, opts |-> <<>>], idx))

\* the options handed to results_to_markdown_with_options, query by query
options_used(text, idx) == query_loop(lines(text), 1, [lines |-> <<>>, opts |-> <<>>], idx).opts

(***************************************************************************)
(* The texts with queries explored, over an index of two pages.            *)
(***************************************************************************)
StageIndex ==
    << with_properties(Page(<<"b">>, <<>>, <<>>, <<>>), << <<<<"t", "y", "p", "e">>, <<"a", "r", "t">>>> >>),
       with_properties(Page(<<"a">>, <<>>, <<>>, <<>>), << <<<<"t", "y", "p", "e">>, <<"b", "o", "o", "k">>>> >>) >>

OptionLines ==
    { <<"q", "u", "e", "r", "y", "-", "t", "a", "b", "l", "e", ":", ":", " ", "f", "a", "l", "s", "e">>, <<"q", "u", "e", "r", "y", "-", "t", "a", "b", "l", "e", ":", ":", "f", "a", "l", "s", "e">>, <<"-", " ", "q", "u", "e", "r", "y", "-", "s", "o", "r", "t", "-", "d", "e", "s", "c", ":", ":", " ", "t", "r", "u", "e">>,
      <<"q", "u", "e", "r", "y", "-", "s", "o", "r", "t", "-", "b", "y", ":", ":", " ", "t", "y", "p", "e">>, <<"q", "u", "e", "r", "y", "-", "p", "r", "o", "p", "e", "r", "t", "i", "e", "s", ":", ":", " ", "[", ":", "p", "a", "g", "e", " ", ":", "t", "y", "p", "e", "]">> }

QueryLines ==
    { <<"{", "{", "q", "u", "e", "r", "y", " ", "(", "p", "r", "o", "p", "e", "r", "t", "y", " ", "t", "y", "p", "e", ")", "}", "}">>, <<" ", " ", "-", " ", "{", "{", "q", "u", "e", "r", "y", " ", "[", "[", "z", "z", "]", "]", "}", "}">>, <<"s", "e", "e", " ", "{", "{", "q", "u", "e", "r", "y", " ", "[", "[", "a", "]", "]", "}", "}">>,
      <<"-", " ", "{", "{", "q", "u", "e", "r", "y", " ", "[", "[", "a", "]", "]", "}", "}", " ", "a", "f", "t", "e", "r">> }

StageLines == OptionLines \cup QueryLines \cup { <<"t", "e", "x", "t">>, <<>> }

StageContents == { join(ls, <<"\n">>) : ls \in SeqsUpTo(StageLines, MaxLines) }

InitStage ==
    /\ content \in StageContents
    /\ page_index = StageIndex
    /\ pc = "idle"
    /\ link = <<>>
    /\ final_link = <<>>
    /\ parts = <<>>
    /\ result = <<>>
    /\ query_ast = <<>>
    /\ query_str = <<>>
    /\ results = <<>>
    /\ query_parts = <<>>
    /\ options = <<>>
    /\ sorted = <<>>
    /\ markdown = <<>>
    /\ NoRun

\* transform: the query stage
ProcessQueries ==
    /\ pc = "idle"
    /\ result' = process_queries_with_options(content, page_index)
    /\ options' = options_used(content, page_index)
    /\ pc' = "queries"
    /\ UNCHANGED <<page_index, link, final_link, parts, content, queryVars, sorted, markdown, runVars>>

\* transform: the stage after it, the conversion of user properties
ConvertQueryProps ==
    /\ pc = "queries"
    /\ result # Panic
    /\ markdown' = convert_user_props(result)
    /\ pc' = "converted"
    /\ UNCHANGED <<page_index, linkVars, queryVars, options, sorted, runVars>>

NextStage == ProcessQueries \/ ConvertQueryProps

SpecStage == InitStage /\ [][NextStage]_vars


\* a line of the output that still holds a query directive: the callout of an empty
\* result quotes the directive after a backtick, any other "{{query" was not executed
unexecuted(line) ==
    /\ contains(line, <<"{", "{", "q", "u", "e", "r", "y">>)
    /\ ~contains(line, <<">", " ", Backtick, "{", "{">>)

\* the lines of the text that are no query lines, in their order
plain_lines(text) == SelectSeq(lines(text), LAMBDA line : ~contains(line, <<"{", "{", "q", "u", "e", "r", "y">>))

\* the lines of the first sequence stand in the second one in the same order
RECURSIVE in_order(_, _)
in_order(xs, ys) ==
    IF xs = <<>> THEN TRUE
    ELSE IF ys = <<>> THEN FALSE
    ELSE IF xs[1] = ys[1] THEN in_order(Tail(xs), Tail(ys))
    ELSE in_order(xs, Tail(ys))

\* C23: after the query stage no unexecuted query directive remains in the output,
\* wherever the directive stands on its line, and the other lines keep their order
C23_EveryQueryReplaced ==
    (pc = "queries" /\ result # Panic) =>
        /\ \A k \in 1..Len(lines_of(result)) : ~unexecuted(lines_of(result)[k])
        /\ in_order(plain_lines(content), lines_of(result))

\* the same for the texts whose directives all start their line, after an optional
\* list marker
QueriesAtLineStartReplaced ==
    (/\ pc = "queries"
     /\ result # Panic
     /\ \A k \in 1..Len(lines(content)) :
            contains(lines(content)[k], <<"{", "{", "q", "u", "e", "r", "y">>) => QUERY_RE_captures(lines(content)[k]).ok) =>
        /\ \A k \in 1..Len(lines_of(result)) : ~unexecuted(lines_of(result)[k])
        /\ in_order(plain_lines(content), lines_of(result))

\* a query line drops what follows the directive on its line
TextAfterQueryKept ==
    pc = "queries" =>
        \A k \in 1..Len(lines(content)) :
            ends_with(lines(content)[k], <<" ", "a", "f", "t", "e", "r">>) =>
                \E m \in 1..Len(lines_of(result)) : contains(lines_of(result)[m], <<"a", "f", "t", "e", "r">>)

\* the numbers of the query lines of ls
query_line_numbers(ls) ==
    SelectSeq([k \in 1..Len(ls) |-> k], LAMBDA k : QUERY_RE_captures(ls[k]).ok)

\* the first of the option lines that stand contiguously above line q
first_option_above(ls, q) ==
    CHOOSE k \in 1..q : /\ \A j \in k..(q - 1) : is_option_line(ls[j])
                        /\ k = 1 \/ ~is_option_line(ls[k - 1])

\* the options the option lines above each query give, query by query
options_above(ls) ==
    [n \in 1..Len(query_line_numbers(ls)) |->
        parse_query_options(join(SubSeq(ls, first_option_above(ls, query_line_numbers(ls)[n]),
                                        query_line_numbers(ls)[n] - 1), <<"\n">>))]

\* line k of ls is an option line consumed by a query
consumed(ls, k) ==
    /\ is_option_line(ls[k])
    /\ \E q \in (k + 1)..Len(ls) : /\ QUERY_RE_captures(ls[q]).ok
                                   /\ \A j \in k..(q - 1) : is_option_line(ls[j])

\* no line of the text is an option line or the prose bullet of one
no_option_lines(text) ==
    \A m \in 1..Len(lines(text)) :
        /\ ~is_option_line(lines(text)[m])
        /\ ~contains(lines(text)[m], <<"*", "*", "Q", "u", "e", "r", "y">>)

\* C24: the options of a query are those of the option lines that stand contiguously
\* above it, default options without such lines, and after the conversion of the
\* user properties no consumed option line is left in the output
C24_OptionsFromLinesAbove ==
    pc = "converted" =>
        /\ options = options_above(lines(content))
        /\ (\A k \in 1..Len(lines(content)) :
                is_option_line(lines(content)[k]) => consumed(lines(content), k)) =>
               no_option_lines(markdown)

\* the same when a space follows the colons of every option line
has_space_after_colons(line) == \E k \in 1..Len(line) : at(line, k, <<":", ":", " ">>)

OptionLinesWithSpaceConsumed ==
    pc = "converted" =>
        /\ options = options_above(lines(content))
        /\ (\A k \in 1..Len(lines(content)) :
                is_option_line(lines(content)[k]) =>
                    consumed(lines(content), k) /\ has_space_after_colons(lines(content)[k])) =>
               no_option_lines(markdown)

\* an option line without the space is read as an option of the query below it
OptionWithoutSpaceIgnored ==
    (/\ pc = "converted"
     /\ Len(lines(content)) = 2
     /\ lines(content)[1] = <<"q", "u", "e", "r", "y", "-", "t", "a", "b", "l", "e", ":", ":", "f", "a", "l", "s", "e">>
     /\ QUERY_RE_captures(lines(content)[2]).ok) => options[1] = DefaultOptions


(***************************************************************************)
(* page.rs: parse_properties.  The map of properties is the sequence of    *)
(* its pairs of key and value, in the order of their first insertion.      *)
(***************************************************************************)
\* [a-zA-Z_-]
PropKeyChars == AsciiLetters \cup {"_", "-"}

\* line.trim_start_matches('-').trim()
clean_line(line) == trim(trim_start_matches(line, <<"-">>))

\* ([a-zA-Z_-]+)::\s*(.+)$ matched at index k of the line
PROP_RE_at(clean, k) ==
    IF /\ span_end(clean, k, PropKeyChars) > k
       /\ at(clean, span_end(clean, k, PropKeyChars), <<":", ":">>)
       /\ span_end(clean, k, PropKeyChars) + 2 <= Len(clean)
    THEN [ok |-> TRUE,
          key |-> SubSeq(clean, k, span_end(clean, k, PropKeyChars) - 1),
          value |-> from(clean, skip_whitespace(clean, span_end(clean, k, PropKeyChars) + 2))]
    ELSE NoMatch

\* PROP_RE = ^-?\s*([a-zA-Z_-]+)::\s*(.+)$: the dash is taken as the list marker when
\* the rest matches, and as the start of the key otherwise
PROP_RE_captures(clean) ==
    IF /\ clean # <<>>
       /\ clean[1] = "-"
       /\ PROP_RE_at(clean, skip_whitespace(clean, 2)).ok
    THEN PROP_RE_at(clean, skip_whitespace(clean, 2))
    ELSE PROP_RE_at(clean, skip_whitespace(clean, 1))

\* HashMap::insert
map_insert(props, key, value) ==
    IF \E j \in 1..Len(props) : props[j][1] = key
    THEN [props EXCEPT ![CHOOSE j \in 1..Len(props) : props[j][1] = key] = <<key, value>>]
    ELSE Append(props, <<key, value>>)

\* the loop over the lines: end_index is the number of lines of the block so far
RECURSIVE properties_loop(_, _, _, _)
RECURSIVE properties_line(_, _, _, _, _, _)
\* a variant that ends the block at a blank line above the first property
properties_line_ending_at_blank(ls, i, props, end_index, clean, caps) ==
    IF caps.ok
    THEN properties_loop(ls, i + 1, map_insert(props, to_lowercase(caps.key), trim(caps.value)), i)
    ELSE IF clean = <<>> /\ props # <<>> THEN properties_loop(ls, i + 1, props, i)
    ELSE [properties |-> props, end_index |-> end_index]

properties_line(ls, i, props, end_index, clean, caps) ==
    IF caps.ok
    THEN properties_loop(ls, i + 1, map_insert(props, to_lowercase(caps.key), trim(caps.value)), i)
    ELSE IF clean = <<>> /\ props # <<>> THEN properties_loop(ls, i + 1, props, i)
    ELSE IF props # <<>> THEN [properties |-> props, end_index |-> end_index]
    ELSE IF clean # <<>> /\ clean[1] # "-" THEN [properties |-> props, end_index |-> end_index]
    ELSE properties_loop(ls, i + 1, props, end_index)

properties_loop(ls, i, props, end_index) ==
    IF i > Len(ls) THEN [properties |-> props, end_index |-> end_index]
    ELSE properties_line(ls, i, props, end_index, clean_line(ls[i]),
                         PROP_RE_captures(clean_line(ls[i])))

\* lines[end_index..].join("\n")
remaining_of(ls, block) ==
    [properties |-> block.properties,
     remaining |-> join(SubSeq(ls, block.end_index + 1, Len(ls)), <<"\n">>)]

parse_properties(text) == remaining_of(lines(text), properties_loop(lines(text), 1, <<>>, 0))

(***************************************************************************)
(* The documents explored.                                                 *)
(***************************************************************************)
DocumentLines ==
    { <<>>, <<"t", "i", "t", "l", "e", ":", ":", " ", "T">>, <<"-", " ", "t", "a", "g", "s", ":", ":", " ", "x">>, <<"T", "i", "t", "l", "e", ":", ":", "U">>, <<"t", "e", "x", "t">>, <<"-", "-", "-">>, <<"-", " ", "-", " ", "n">>,
      <<"k", "e", "y", ":", ":">>, <<"a", " ", "b", ":", ":", " ", "c">> }

DocumentContents == { join(ls, <<"\n">>) : ls \in SeqsUpTo(DocumentLines, MaxLines) }

InitDocument ==
    /\ content \in DocumentContents
    /\ page_index = <<>>
    /\ pc = "idle"
    /\ link = <<>>
    /\ final_link = <<>>
    /\ parts = <<>>
    /\ result = <<>>
    /\ query_ast = <<>>
    /\ query_str = <<>>
    /\ results = <<>>
    /\ query_parts = <<>>
    /\ options = <<>>
    /\ sorted = <<>>
    /\ markdown = <<>>
    /\ NoRun

\* let (properties, remaining_content) = parse_properties(&content)
ParseProperties ==
    /\ pc = "idle"
    /\ parts' = parse_properties(content).properties
    /\ result' = parse_properties(content).remaining
    /\ pc' = "parsed"
    /\ UNCHANGED <<page_index, link, final_link, content, queryVars, renderVars, runVars>>


NextDocument == ParseProperties

SpecDocument == InitDocument /\ [][NextDocument]_vars

\* the line is a property line; the line is blank once its leading dashes are taken off
is_property(line) == PROP_RE_captures(clean_line(line)).ok
is_blank(line) == clean_line(line) = <<>>

property_key(line) == to_lowercase(PROP_RE_captures(clean_line(line)).key)
property_value(line) == trim(PROP_RE_captures(clean_line(line)).value)

\* the last line of the block that starts at line start: property lines and blank
\* lines, up to the first line that is neither
block_end(ls, start) ==
    CHOOSE e \in start..Len(ls) :
        /\ \A j \in start..e : is_property(ls[j]) \/ is_blank(ls[j])
        /\ e = Len(ls) \/ ~(is_property(ls[e + 1]) \/ is_blank(ls[e + 1]))

\* props holds the properties of the lines start..e, the last line of a key winning
properties_of_lines(ls, start, e, props) ==
    /\ \A j \in start..e :
           is_property(ls[j]) =>
               \E m \in j..e : /\ is_property(ls[m])
                               /\ property_key(ls[m]) = property_key(ls[j])
                               /\ \A n \in (m + 1)..e :
                                      is_property(ls[n]) => property_key(ls[n]) # property_key(ls[j])
                               /\ map_get(props, property_key(ls[j])) = Some(property_value(ls[m]))
    /\ \A p \in 1..Len(props) :
           \E j \in start..e : is_property(ls[j]) /\ property_key(ls[j]) = props[p][1]

\* the block that starts at line start gives props, and the lines after it are the
\* remainder
block_gives(ls, start, props, remaining) ==
    /\ properties_of_lines(ls, start, block_end(ls, start), props)
    /\ remaining = join(SubSeq(ls, block_end(ls, start) + 1, Len(ls)), <<"\n">>)

\* C25: the property block is read from the first line on: a first line that is blank
\* or no property gives no properties and the whole text as body; otherwise the block
\* runs over property lines and blank lines to the first other line, and the
\* remainder is the lines after it
C25_PropertyBlock ==
    pc = "parsed" =>
        IF lines(content) = <<>> \/ ~is_property(lines(content)[1])
        THEN parts = <<>> /\ result = join(lines(content), <<"\n">>)
        ELSE block_gives(lines(content), 1, parts, result)

\* before any property a line is passed over when it is blank or still begins with a
\* dash once its leading dashes and whitespace are taken off
passed_over(line) ==
    /\ ~is_property(line)
    /\ is_blank(line) \/ clean_line(line)[1] = "-"

\* line k is the first property line and only lines passed over stand above it
block_starts_at(ls, k) ==
    /\ is_property(ls[k])
    /\ \A j \in 1..(k - 1) : passed_over(ls[j])

\* C25 amended: the lines passed over above the first property line do not end the
\* block; the block runs from the first property line over property lines and blank
\* lines, and the remainder is the lines after it; a text without such a first
\* property line has no properties and all its lines as body
PropertyBlockAfterLinesPassedOver ==
    pc = "parsed" =>
        IF \E k \in 1..Len(lines(content)) : block_starts_at(lines(content), k)
        THEN block_gives(lines(content),
                         CHOOSE k \in 1..Len(lines(content)) : block_starts_at(lines(content), k),
                         parts, result)
        ELSE parts = <<>> /\ result = join(lines(content), <<"\n">>)

\* a property block read after a blank first line
C25_Witness ==
    /\ pc = "parsed"
    /\ Len(lines(content)) = 3
    /\ is_blank(lines(content)[1])
    /\ is_property(lines(content)[2])
    /\ parts # <<>>
    /\ result = lines(content)[3]


(***************************************************************************)
(* page.rs: extract_tags.                                                  *)
(***************************************************************************)
\* one entry of the tags property: tag.trim().trim_start_matches("[[")
\* .trim_end_matches("]]").to_lowercase()
property_tag(entry) ==
    to_lowercase(trim_end_matches(trim_start_matches(trim(entry), <<"[", "[">>), <<"]", "]">>))

\* the loop over the entries of the tags property: every entry that is not empty
\* is pushed
property_tags(tags_str) ==
    SelectSeq([k \in 1..Len(split(tags_str, ",")) |-> property_tag(split(tags_str, ",")[k])],
              LAMBDA tag : tag # <<>>)

\* TAG_RE = #([a-zA-Z][a-zA-Z0-9_-]*) matches at index i of the text
TAG_RE_at(text, i) ==
    /\ i + 1 <= Len(text)
    /\ text[i] = "#"
    /\ text[i + 1] \in AsciiLetters

TagChars == AsciiLetters \cup Digits \cup {"_", "-"}

\* the loop over TAG_RE.captures_iter(content): a tag not yet in the list is pushed
RECURSIVE inline_tags(_, _, _)
inline_tags(text, i, tags) ==
    IF i > Len(text) THEN tags
    ELSE IF ~TAG_RE_at(text, i) THEN inline_tags(text, i + 1, tags)
    ELSE inline_tags(text, span_end(text, i + 1, TagChars),
                     IF \E k \in 1..Len(tags) :
                            tags[k] = to_lowercase(SubSeq(text, i + 1, span_end(text, i + 1, TagChars) - 1))
                     THEN tags
                     ELSE Append(tags, to_lowercase(SubSeq(text, i + 1, span_end(text, i + 1, TagChars) - 1))))

extract_tags(properties, text) ==
    inline_tags(text, 1,
                IF map_get(properties, <<"t", "a", "g", "s">>) = None THEN <<>>
                ELSE property_tags(map_get(properties, <<"t", "a", "g", "s">>)[1]))

(***************************************************************************)
(* The documents with tags explored.                                       *)
(***************************************************************************)
TagLines ==
    { <<"t", "a", "g", "s", ":", ":", " ", "x", ",", " ", "X">>, <<"t", "a", "g", "s", ":", ":", " ", "[", "[", "y", "]", "]", ",", " ", "x">>, <<"-", " ", "t", "a", "g", "s", ":", ":", " ", ",", " ", "[", "[", "a", " ", "b", "]", "]">>, <<"#", "x", " ", "b", "o", "d", "y">>,
      <<"s", "e", "e", " ", "#", "Z", "1", " ", "a", "n", "d", " ", "#", "x">>, <<"t", "e", "x", "t">> }

TagContents == { join(ls, <<"\n">>) : ls \in SeqsUpTo(TagLines, MaxLines) }

InitTags ==
    /\ content \in TagContents
    /\ page_index = <<>>
    /\ pc = "idle"
    /\ link = <<>>
    /\ final_link = <<>>
    /\ parts = <<>>
    /\ result = <<>>
    /\ query_ast = <<>>
    /\ query_str = <<>>
    /\ results = <<>>
    /\ query_parts = <<>>
    /\ options = <<>>
    /\ sorted = <<>>
    /\ markdown = <<>>
    /\ NoRun

\* parse_page_for_index after parse_properties: the page of the document is pushed
\* with its properties and tags
IndexDocument ==
    /\ pc = "parsed"
    /\ page_index' = Append(page_index,
                            with_properties(Page(<<"d", "o", "c">>, <<>>, extract_tags(parts, content), content),
                                            parts))
    /\ pc' = "indexed"
    /\ UNCHANGED <<linkVars, queryVars, renderVars, runVars>>

NextTags == ParseProperties \/ IndexDocument

SpecTags == InitTags /\ [][NextTags]_vars

\* the tags the entries of the tags property give
tags_of_property(props) ==
    IF map_get(props, <<"t", "a", "g", "s">>) = None THEN {}
    ELSE { property_tag(split(map_get(props, <<"t", "a", "g", "s">>)[1], ",")[k]) :
               k \in 1..Len(split(map_get(props, <<"t", "a", "g", "s">>)[1], ",")) } \ {<<>>}

\* the tags the #word tokens of the text give
tags_of_tokens(text) ==
    { to_lowercase(SubSeq(text, i + 1, span_end(text, i + 1, TagChars) - 1)) :
          i \in { j \in 1..Len(text) : TAG_RE_at(text, j) } }

\* C26: the tags of a page are the entries of its tags property and the #word
\* tokens of its text, every one lowercase and listed exactly once
C26_TagsUnique ==
    pc = "indexed" =>
        /\ { page_index[1].tags[k] : k \in 1..Len(page_index[1].tags) }
               = tags_of_property(parts) \cup tags_of_tokens(content)
        /\ \A k \in 1..Len(page_index[1].tags) :
               page_index[1].tags[k] = to_lowercase(page_index[1].tags[k])
        /\ \A j, k \in 1..Len(page_index[1].tags) :
               page_index[1].tags[j] = page_index[1].tags[k] => j = k

\* the same when the entries of the tags property differ from each other
TagsUniqueWithoutRepeatInProperty ==
    (/\ pc = "indexed"
     /\ \/ map_get(parts, <<"t", "a", "g", "s">>) = None
        \/ \A j, k \in 1..Len(property_tags(map_get(parts, <<"t", "a", "g", "s">>)[1])) :
               property_tags(map_get(parts, <<"t", "a", "g", "s">>)[1])[j] = property_tags(map_get(parts, <<"t", "a", "g", "s">>)[1])[k]
                   => j = k) =>
        /\ { page_index[1].tags[k] : k \in 1..Len(page_index[1].tags) }
               = tags_of_property(parts) \cup tags_of_tokens(content)
        /\ \A k \in 1..Len(page_index[1].tags) :
               page_index[1].tags[k] = to_lowercase(page_index[1].tags[k])
        /\ \A j, k \in 1..Len(page_index[1].tags) :
               page_index[1].tags[j] = page_index[1].tags[k] => j = k


(***************************************************************************)
(* main.rs: run_preprocessor.  The main thread builds the index of pages/, *)
(* builds the index of journals/ and moves its pages into the first under  *)
(* the name journals/<name>, then hands every page file to the pool of     *)
(* workers and waits for all of them, then takes the journals one by one.  *)
(* A file is the directory it stands in below pages/ or journals/, its     *)
(* stem, its text, and whether read_to_string succeeds.  Of transform the  *)
(* run keeps the stage that reads the index, the query stage.              *)
(***************************************************************************)
File(dir, stem, text, readable) ==
    [dir |-> dir, stem |-> stem, content |-> text, readable |-> readable]

NamespaceSeparator == <<"_", "_", "_">>

\* str::find of a pattern: the first index, 0 when absent
find_str(s, p) ==
    IF contains(s, p) THEN CHOOSE i \in 1..(Len(s) + 1) : at(s, i, p) /\ \A j \in 1..(i - 1) : ~at(s, j, p)
    ELSE 0

\* parse_page_for_index: the page of a file stem cut at index cut, 0 for no cut
page_of(file, filename, cut, properties) ==
    IF cut # 0
    THEN with_namespace(
             with_properties(Page(SubSeq(filename, 1, cut - 1) \o <<"/">>
                                      \o from(filename, cut + Len(NamespaceSeparator)),
                                  <<>>, extract_tags(properties, file.content), file.content),
                             properties),
             SubSeq(filename, 1, cut - 1))
    ELSE with_properties(Page(filename, <<>>, extract_tags(properties, file.content), file.content),
                         properties)

\* parse_page_for_index: the Page of a file that can be read
parse_page_for_index(file) ==
    page_of(file, file.stem, find_str(file.stem, NamespaceSeparator),
            parse_properties(file.content).properties)

\* run_preprocessor: the page of the journal index as it is pushed to the page index
journal_page(page) == [page EXCEPT !.name = JournalsPrefix \o page.name]

\* process_page, process_journal_file: the page is private
is_private(properties) ==
    /\ map_get(properties, <<"p", "r", "i", "v", "a", "t", "e">>) # None
    /\ to_lowercase(map_get(properties, <<"p", "r", "i", "v", "a", "t", "e">>)[1]) = <<"t", "r", "u", "e">>

\* process_page: the output path below the output directory,
\* filename.replace("___", "/") with the extension
output_path(file) ==
    replace_str(file.stem, 1, NamespaceSeparator, <<"/">>) \o <<".", "m", "d">>

\* DATE_UNDERSCORE_RE and DATE_DASH_RE with the separator sep
date_re(filename, sep) ==
    /\ Len(filename) = 10
    /\ \A i \in {1, 2, 3, 4, 6, 7, 9, 10} : filename[i] \in Digits
    /\ filename[5] = sep
    /\ filename[8] = sep

\* parse_journal_date: Some(date) of a file name that is a date, None otherwise
parse_journal_date(filename) ==
    LET month == parse_digits(SubSeq(filename, 6, 7))
        day == parse_digits(SubSeq(filename, 9, 10))
    IN  IF /\ date_re(filename, "_") \/ date_re(filename, "-")
           /\ month >= 1 /\ month <= 12 /\ day >= 1 /\ day <= 31
        THEN Some(SubSeq(filename, 1, 4) \o <<"-">> \o SubSeq(filename, 6, 7)
                  \o <<"-">> \o SubSeq(filename, 9, 10))
        ELSE None

\* process_journal_file: the output path below the output directory
journal_output_path(date) == JournalsPrefix \o date \o <<".", "m", "d">>

\* Stats::default, for the counts of pages and journals
DefaultStats == [pages_published |-> 0, pages_skipped |-> 0, journals_published |-> 0]

(***************************************************************************)
(* The directories explored.                                               *)
(***************************************************************************)
\* a query whose text has no match and whose 80th byte lies inside a character
LongQuery ==
    <<"{", "{", "q", "u", "e", "r", "y", " ", "(", "p", "a", "g", "e", " ", "x">>
        \o [k \in 1..33 |-> "é"] \o <<")", "}", "}">>

PageFiles ==
    { File(<<>>, <<"n", "_", "_", "_", "a">>, <<"{", "{", "q", "u", "e", "r", "y", " ", "(", "p", "r", "o", "p", "e", "r", "t", "y", " ", "t", "y", "p", "e", ")", "}", "}">>, TRUE),
      File(<<"x">>, <<"n", "_", "_", "_", "a">>, <<"t", "e", "x", "t">>, TRUE),
      File(<<>>, <<"p", "_", "_", "_", "c", "_", "_", "_", "d">>, <<"p", "r", "i", "v", "a", "t", "e", ":", ":", " ", "T", "r", "u", "e">> \o <<"\n">> \o <<"t", "y", "p", "e", ":", ":", " ", "s", "e", "c", "r", "e", "t">>, TRUE),
      File(<<>>, <<"q">>, LongQuery, TRUE),
      File(<<>>, <<"u">>, <<>>, FALSE) }

JournalFiles ==
    { File(<<>>, <<"2", "0", "2", "4", "_", "0", "1", "_", "1", "5">>, <<"t", "e", "x", "t">>, TRUE),
      File(<<>>, <<"2", "0", "2", "4", "-", "0", "2", "-", "3", "0">>, <<"p", "r", "i", "v", "a", "t", "e", ":", ":", " ", "T", "r", "u", "e">>, TRUE),
      File(<<>>, <<"n", "o", "t", "e", "s">>, <<>>, TRUE) }

InitRun ==
    /\ config \in [include_private : BOOLEAN]
    /\ pages_dir \in SeqsNoRep(PageFiles, MaxFiles)
    /\ journals_dir \in {None} \cup { Some(js) : js \in SeqsNoRep(JournalFiles, MaxJournals) }
    /\ page_index = <<>>
    /\ journal_index = <<>>
    /\ walked = 0
    /\ tasks = [i \in 1..Len(pages_dir) |-> "waiting"]
    /\ seen = {}
    /\ published = 0
    /\ skipped = 0
    /\ processed = {}
    /\ count = 0
    /\ stats = DefaultStats
    /\ written = {}
    /\ pc = "build_index pages"
    /\ link = <<>>
    /\ final_link = <<>>
    /\ parts = <<>>
    /\ content = <<>>
    /\ result = <<>>
    /\ query_ast = <<>>
    /\ query_str = <<>>
    /\ results = <<>>
    /\ query_parts = <<>>
    /\ options = <<>>
    /\ sorted = <<>>
    /\ markdown = <<>>

otherVars == <<linkVars, queryVars, renderVars>>

\* build_index(&pages_dir): one entry of the walk; a file that cannot be read is
\* passed over
IndexPage ==
    /\ pc = "build_index pages"
    /\ walked < Len(pages_dir)
    /\ page_index' = IF pages_dir[walked + 1].readable
                     THEN Append(page_index, parse_page_for_index(pages_dir[walked + 1]))
                     ELSE page_index
    /\ walked' = walked + 1
    /\ UNCHANGED <<pc, config, pages_dir, journals_dir, journal_index, tasks, seen,
                   published, skipped, processed, count, stats, written, otherVars>>

\* build_index(&pages_dir) returns; journals_dir.exists()
PagesIndexed ==
    /\ pc = "build_index pages"
    /\ walked = Len(pages_dir)
    /\ pc' = IF journals_dir # None THEN "build_index journals" ELSE "process pages"
    /\ walked' = 0
    /\ UNCHANGED <<page_index, config, pages_dir, journals_dir, journal_index, tasks, seen,
                   published, skipped, processed, count, stats, written, otherVars>>

\* build_index(&journals_dir): one entry of the walk
IndexJournal ==
    /\ pc = "build_index journals"
    /\ walked < Len(journals_dir[1])
    /\ journal_index' = IF journals_dir[1][walked + 1].readable
                        THEN Append(journal_index, parse_page_for_index(journals_dir[1][walked + 1]))
                        ELSE journal_index
    /\ walked' = walked + 1
    /\ UNCHANGED <<pc, page_index, config, pages_dir, journals_dir, tasks, seen,
                   published, skipped, processed, count, stats, written, otherVars>>

\* build_index(&journals_dir) returns
JournalsIndexed ==
    /\ pc = "build_index journals"
    /\ walked = Len(journals_dir[1])
    /\ pc' = "overlay"
    /\ walked' = 0
    /\ UNCHANGED <<page_index, config, pages_dir, journals_dir, journal_index, tasks, seen,
                   published, skipped, processed, count, stats, written, otherVars>>

\* for mut page in journal_index: one page renamed and pushed
OverlayJournal ==
    /\ pc = "overlay"
    /\ walked < Len(journal_index)
    /\ page_index' = Append(page_index, journal_page(journal_index[walked + 1]))
    /\ walked' = walked + 1
    /\ UNCHANGED <<pc, config, pages_dir, journals_dir, journal_index, tasks, seen,
                   published, skipped, processed, count, stats, written, otherVars>>

\* the loop over journal_index ends; the page files are collected for par_iter
OverlayDone ==
    /\ pc = "overlay"
    /\ walked = Len(journal_index)
    /\ pc' = "process pages"
    /\ walked' = 0
    /\ UNCHANGED <<page_index, config, pages_dir, journals_dir, journal_index, tasks, seen,
                   published, skipped, processed, count, stats, written, otherVars>>

\* a worker before the index is whole: the closure begins while the journal pages
\* are still being pushed
StartPageDuringOverlay(i) ==
    /\ pc \in {"overlay", "process pages"}
    /\ tasks[i] = "waiting"
    /\ pages_dir[i].readable
    /\ tasks' = [tasks EXCEPT ![i] = "transforming"]
    /\ seen' = seen \cup {page_index}
    /\ UNCHANGED <<pc, page_index, config, pages_dir, journals_dir, journal_index, walked,
                   published, skipped, processed, count, stats, written, otherVars>>

\* a worker takes the closure of page file i: process_page up to the call of
\* transform, which reads the index; Err of a file that cannot be read, Ok(false)
\* of a private page.  After a panic of another closure the closures still waiting
\* may be taken or not.
StartPage(i) ==
    /\ pc = "process pages"
    /\ tasks[i] = "waiting"
    /\ IF ~pages_dir[i].readable
       THEN /\ tasks' = [tasks EXCEPT ![i] = "failed"]
            /\ UNCHANGED <<seen, skipped>>
       ELSE IF ~config.include_private
               /\ is_private(parse_properties(pages_dir[i].content).properties)
       THEN /\ tasks' = [tasks EXCEPT ![i] = "skipped"]
            /\ skipped' = skipped + 1
            /\ UNCHANGED seen
       ELSE /\ tasks' = [tasks EXCEPT ![i] = "transforming"]
            /\ seen' = seen \cup {page_index}
            /\ UNCHANGED skipped
    /\ UNCHANGED <<pc, page_index, config, pages_dir, journals_dir, journal_index, walked,
                   published, processed, count, stats, written, otherVars>>

\* process_page from the call of transform on, given the text transform returns:
\* a panic unwinds the closure, otherwise the output is written and the closure
\* counts the page
page_written(i, transformed) ==
    IF transformed = Panic
    THEN /\ tasks' = [tasks EXCEPT ![i] = "panicked"]
         /\ UNCHANGED <<published, written>>
    ELSE /\ tasks' = [tasks EXCEPT ![i] = "published"]
         /\ published' = published + 1
         /\ written' = written \cup {[path |-> output_path(pages_dir[i]),
                                      source |-> <<"pages", i>>,
                                      text |-> transformed]}

\* the transform of page file i reads the index to its end
FinishPage(i) ==
    /\ pc = "process pages"
    /\ tasks[i] = "transforming"
    /\ seen' = seen \cup {page_index}
    /\ page_written(i, process_queries_with_options(
                           parse_properties(pages_dir[i].content).remaining, page_index))
    /\ UNCHANGED <<pc, page_index, config, pages_dir, journals_dir, journal_index, walked,
                   skipped, processed, count, stats, otherVars>>

\* for_each returns when every closure has returned; the counters are loaded
PagesProcessed ==
    /\ pc = "process pages"
    /\ \A i \in 1..Len(pages_dir) : tasks[i] \in {"published", "skipped", "failed"}
    /\ stats' = [stats EXCEPT !.pages_published = published, !.pages_skipped = skipped]
    /\ pc' = IF journals_dir # None THEN "process journals" ELSE "finish"
    /\ UNCHANGED <<page_index, config, pages_dir, journals_dir, journal_index, walked, tasks,
                   seen, published, skipped, processed, count, written, otherVars>>

\* for_each resumes the panic of a closure once no closure is running: the closures
\* not yet taken are dropped and run_preprocessor unwinds
PagesPanicked ==
    /\ pc = "process pages"
    /\ \E i \in 1..Len(pages_dir) : tasks[i] = "panicked"
    /\ \A i \in 1..Len(pages_dir) : tasks[i] # "transforming"
    /\ pc' = "panicked"
    /\ UNCHANGED <<page_index, runVars, otherVars>>

\* process_journal_file from the call of transform on, given the text it returns
journal_written(j, date, transformed) ==
    IF transformed = Panic
    THEN /\ pc' = "panicked"
         /\ UNCHANGED <<count, written>>
    ELSE /\ count' = count + 1
         /\ written' = written \cup {[path |-> journal_output_path(date),
                                      source |-> <<"journals", j>>,
                                      text |-> transformed]}
         /\ UNCHANGED pc

\* process_journals: one entry of read_dir, in whatever order it comes
ProcessJournal(j) ==
    /\ pc = "process journals"
    /\ j \notin processed
    /\ processed' = processed \cup {j}
    /\ IF /\ parse_journal_date(journals_dir[1][j].stem) # None
          /\ journals_dir[1][j].readable
          /\ \/ config.include_private
             \/ ~is_private(parse_properties(journals_dir[1][j].content).properties)
       THEN /\ seen' = seen \cup {page_index}
            /\ journal_written(j, parse_journal_date(journals_dir[1][j].stem)[1],
                               process_queries_with_options(
                                   parse_properties(journals_dir[1][j].content).remaining,
                                   page_index))
       ELSE UNCHANGED <<seen, count, written, pc>>
    /\ UNCHANGED <<page_index, config, pages_dir, journals_dir, journal_index, walked,
                   tasks, published, skipped, stats, otherVars>>

\* process_journals returns the count
JournalsProcessed ==
    /\ pc = "process journals"
    /\ processed = 1..Len(journals_dir[1])
    /\ stats' = [stats EXCEPT !.journals_published = count]
    /\ pc' = "finish"
    /\ UNCHANGED <<page_index, config, pages_dir, journals_dir, journal_index, walked, tasks,
                   seen, published, skipped, processed, count, written, otherVars>>

\* favorites, site config, assets and stubs: the index is passed on by reference
FinishRun ==
    /\ pc = "finish"
    /\ pc' = "done"
    /\ UNCHANGED <<page_index, runVars, otherVars>>

NextRun ==
    \/ IndexPage
    \/ PagesIndexed
    \/ IndexJournal
    \/ JournalsIndexed
    \/ OverlayJournal
    \/ OverlayDone
    \/ \E i \in 1..Len(pages_dir) : StartPage(i)
    \/ \E i \in 1..Len(pages_dir) : FinishPage(i)
    \/ PagesProcessed
    \/ PagesPanicked
    \/ \E j \in 1..Len(unwrap_or_default(journals_dir)) : ProcessJournal(j)
    \/ JournalsProcessed
    \/ FinishRun

SpecRun == InitRun /\ [][NextRun]_vars

(***************************************************************************)
(* The index and the transforms of a run.                                  *)
(***************************************************************************)
\* the pages of the files of a directory that can be read, in the order of the walk
PagesOf(files) ==
    LET Readable(f) == f.readable
        kept == SelectSeq(files, Readable)
    IN  [k \in 1..Len(kept) |-> parse_page_for_index(kept[k])]

\* the whole index: the pages of pages/, then the pages of journals/ under the
\* name journals/<name>
CompleteIndex ==
    PagesOf(pages_dir)
        \o [k \in 1..Len(PagesOf(unwrap_or_default(journals_dir))) |->
               [PagesOf(unwrap_or_default(journals_dir))[k] EXCEPT
                    !.name = JournalsPrefix \o PagesOf(unwrap_or_default(journals_dir))[k].name]]

TransformStarted == seen # {} \/ \E i \in 1..Len(tasks) : tasks[i] = "transforming"

\* C20: no transform starts before the index is whole, the journal pages under
\* journals/<name> included; from the start of the first transform to the end of the
\* run the index is not modified, and every transform reads the same index contents
C20_IndexCompleteBeforeTransforms ==
    /\ [](TransformStarted => page_index = CompleteIndex /\ seen = {CompleteIndex})
    /\ [][TransformStarted \/ TransformStarted' => page_index' = page_index]_vars

\* two workers are in their transforms at once, over an index with a journal page
C20_Witness ==
    /\ pc = "process pages"
    /\ \E i, k \in 1..Len(tasks) : i # k /\ tasks[i] = "transforming" /\ tasks[k] = "transforming"
    /\ \E k \in 1..Len(page_index) : starts_with(page_index[k].name, JournalsPrefix)


\* the parallel page phase has ended, by the return of for_each or by its panic
PhaseEnded == pc \in {"process journals", "finish", "done", "panicked"}

\* process_page returns Ok(true) for page file i: the file can be read and is not
\* withheld as private
to_publish(i) ==
    /\ pages_dir[i].readable
    /\ \/ config.include_private
       \/ ~is_private(parse_properties(pages_dir[i].content).properties)

\* every page file whose own processing does not fail has been processed and
\* written, and the counters hold the page files processed without error
others_processed ==
    /\ \A i \in 1..Len(pages_dir) : tasks[i] \notin {"waiting", "transforming"}
    /\ \A i \in 1..Len(pages_dir) :
           (to_publish(i) /\ tasks[i] # "panicked") =>
               /\ tasks[i] = "published"
               /\ \E w \in written : w.source = <<"pages", i>>
    /\ published + skipped
           = Cardinality({ i \in 1..Len(pages_dir) : tasks[i] \in {"published", "skipped"} })
    /\ pc # "panicked"
    /\ stats.pages_published + stats.pages_skipped = published + skipped

\* C21: when the parallel page phase has ended, in every interleaving of the
\* workers, every document other than a failing one has been processed and written
\* and published + skipped is the number of documents processed without error
C21_FailureIsIsolated == PhaseEnded => others_processed

\* the same for the runs in which no transform panics: a file that cannot be read
\* fails alone
FailureIsIsolatedWithoutPanic ==
    (PhaseEnded /\ \A i \in 1..Len(pages_dir) : pages_dir[i].content # LongQuery) =>
        others_processed

\* a run in which a file that cannot be read failed and another page was published
ReadFailureIsolated ==
    /\ pc = "done"
    /\ \E i, k \in 1..Len(pages_dir) : tasks[i] = "failed" /\ tasks[k] = "published"


\* the name under which page file i is indexed
index_name(i) == parse_page_for_index(pages_dir[i]).name

\* the index name of page file i is the output path written for it, without the
\* extension
name_is_output_path(i) ==
    /\ index_name(i) = replace_str(pages_dir[i].stem, 1, NamespaceSeparator, <<"/">>)
    /\ \A w \in written :
           w.source = <<"pages", i>> => w.path = index_name(i) \o <<".", "m", "d">>

\* C27: the index name of a page file is its stem with every namespace separator
\* replaced by a slash, for any number of separators, and the output file written
\* for it has that name
C27_IndexNameIsOutputPath ==
    \A i \in 1..Len(pages_dir) : tasks[i] = "published" => name_is_output_path(i)

\* the same for the stems with at most one namespace separator
IndexNameIsOutputPathForOneSeparator ==
    \A i \in 1..Len(pages_dir) :
        (/\ tasks[i] = "published"
         /\ ~contains(from(pages_dir[i].stem,
                           find_str(pages_dir[i].stem, NamespaceSeparator) + 1),
                      NamespaceSeparator)) =>
            name_is_output_path(i)

\* the journal pages: the index name of a journal written is the output path
JournalNameIsOutputPath ==
    \A w \in written :
        w.source[1] = "journals" =>
            w.path = journal_page(parse_page_for_index(journals_dir[1][w.source[2]])).name
                         \o <<".", "m", "d">>


\* C29: every output file is written by at most one worker: no two source files
\* of the run are written to the same output path
C29_OneWriterPerOutput ==
    \A w1, w2 \in written : w1.path = w2.path => w1.source = w2.source

\* the same for the page files whose stems differ, wherever they stand below pages/
OneWriterPerStem ==
    \A w1, w2 \in written :
        (/\ w1.source[1] = "pages"
         /\ w2.source[1] = "pages"
         /\ pages_dir[w1.source[2]].stem # pages_dir[w2.source[2]].stem) =>
            w1.path # w2.path

\* two workers are at once in the transforms of two files of the same output path
WritersRace ==
    /\ pc = "process pages"
    /\ \E i, k \in 1..Len(pages_dir) :
           /\ i # k
           /\ tasks[i] = "transforming"
           /\ tasks[k] = "transforming"
           /\ output_path(pages_dir[i]) = output_path(pages_dir[k])

\* the source file of an output file
source_file(w) ==
    IF w.source[1] = "pages" THEN pages_dir[w.source[2]] ELSE journals_dir[1][w.source[2]]

\* the index without the private pages
public_index(idx) == SelectSeq(idx, LAMBDA page : ~is_private(page.properties))

\* C30: with include_private false a private page has no influence on the output:
\* no output file is written for it, and every output file has the text it has over
\* the index without the private pages
C30_PrivatePagesWithoutInfluence ==
    ~config.include_private =>
        \A w \in written :
            /\ ~is_private(parse_properties(source_file(w).content).properties)
            /\ w.text = process_queries_with_options(
                            parse_properties(source_file(w).content).remaining,
                            public_index(CompleteIndex))

\* with include_private false no output file is written for a private page or journal
PrivatePagesNotWritten ==
    ~config.include_private =>
        \A w \in written : ~is_private(parse_properties(source_file(w).content).properties)


(***************************************************************************)
(* content.rs: hiccup_to_html and convert_hiccup_to_markdown.              *)
(***************************************************************************)
\* the count of '[' less the count of ']'
bracket_count(s) == count_char(s, "[") - count_char(s, "]")

\* the loop over rest.char_indices(): the index of the brace that closes the first
\* one, 0 when none does
RECURSIVE attr_end(_, _, _)
attr_end(rest, i, brace_count) ==
    IF i > Len(rest) THEN 0
    ELSE IF rest[i] = "{" THEN attr_end(rest, i + 1, brace_count + 1)
    ELSE IF rest[i] = "}"
    THEN IF brace_count = 1 THEN i ELSE attr_end(rest, i + 1, brace_count - 1)
    ELSE attr_end(rest, i + 1, brace_count)

\* ATTR_RE = :(\w+)\s+"([^"]+)" matches at index k
ATTR_RE_at(s, k) ==
    /\ k <= Len(s)
    /\ s[k] = ":"
    /\ span_end(s, k + 1, WordChars) > k + 1
    /\ span_end(s, span_end(s, k + 1, WordChars), WhiteSpace) > span_end(s, k + 1, WordChars)
    /\ at(s, span_end(s, span_end(s, k + 1, WordChars), WhiteSpace), <<"\"">>)
    /\ run_end(s, span_end(s, span_end(s, k + 1, WordChars), WhiteSpace) + 1, {"\""})
           > span_end(s, span_end(s, k + 1, WordChars), WhiteSpace) + 1
    /\ run_end(s, span_end(s, span_end(s, k + 1, WordChars), WhiteSpace) + 1, {"\""}) <= Len(s)

\* one attribute of the match at index k whose value starts at index v
attr_html(s, k, v) ==
    <<" ">> \o SubSeq(s, k + 1, span_end(s, k + 1, WordChars) - 1) \o <<"=", "\"">>
        \o SubSeq(s, v, run_end(s, v, {"\""}) - 1) \o <<"\"">>


\* parse_hiccup_attrs: the loop over ATTR_RE.captures_iter, from index i on; the
\* match at index k has its value at index v
RECURSIVE parse_hiccup_attrs(_, _)
attrs_value(attrs, k, v) ==
    attr_html(attrs, k, v) \o parse_hiccup_attrs(attrs, run_end(attrs, v, {"\""}) + 1)

attrs_from(attrs, k) ==
    attrs_value(attrs, k, span_end(attrs, span_end(attrs, k + 1, WordChars), WhiteSpace) + 1)

parse_hiccup_attrs(attrs, i) ==
    IF \A k \in i..Len(attrs) : ~ATTR_RE_at(attrs, k) THEN <<>>
    ELSE attrs_from(attrs, CHOOSE k \in i..Len(attrs) :
                               ATTR_RE_at(attrs, k) /\ \A j \in i..(k - 1) : ~ATTR_RE_at(attrs, j))

\* HICCUP_LI_RE = \[:li\s+"([^"]+)"\] matches at index k
HICCUP_LI_RE_at(s, k) ==
    /\ at(s, k, <<"[", ":", "l", "i">>)
    /\ span_end(s, k + 4, WhiteSpace) > k + 4
    /\ at(s, span_end(s, k + 4, WhiteSpace), <<"\"">>)
    /\ run_end(s, span_end(s, k + 4, WhiteSpace) + 1, {"\""}) > span_end(s, k + 4, WhiteSpace) + 1
    /\ at(s, run_end(s, span_end(s, k + 4, WhiteSpace) + 1, {"\""}), <<"\"", "]">>)

\* the loop over HICCUP_LI_RE.captures_iter(hiccup), from index i on: the items
\* joined; the match at index k has its text at index v
RECURSIVE li_items(_, _)
li_item(s, v) ==
    <<"<", "l", "i", ">">> \o SubSeq(s, v, run_end(s, v, {"\""}) - 1) \o <<"<", "/", "l", "i", ">">>
        \o li_items(s, run_end(s, v, {"\""}) + 2)

li_items(s, i) ==
    IF \A k \in i..Len(s) : ~HICCUP_LI_RE_at(s, k) THEN <<>>
    ELSE li_item(s, span_end(s, (CHOOSE k \in i..Len(s) :
                                     HICCUP_LI_RE_at(s, k) /\ \A j \in i..(k - 1) : ~HICCUP_LI_RE_at(s, j))
                                + 4, WhiteSpace) + 1)

\* parse_hiccup_content: the index after the bracket that closes the one at index i,
\* Len + 1 when none does
RECURSIVE nested_end(_, _, _)
nested_end(chars, i, bracket_depth) ==
    IF i > Len(chars) THEN i
    ELSE IF chars[i] = "[" THEN nested_end(chars, i + 1, bracket_depth + 1)
    ELSE IF chars[i] = "]"
    THEN IF bracket_depth = 1 THEN i + 1 ELSE nested_end(chars, i + 1, bracket_depth - 1)
    ELSE nested_end(chars, i + 1, bracket_depth)

RECURSIVE hiccup_to_html(_)
RECURSIVE content_loop(_, _, _)

\* a nested element has been converted
content_nested(chars, e, acc, html) ==
    IF html = Panic THEN Panic ELSE content_loop(chars, e, acc \o html)

\* parse_hiccup_content: the loop over the characters
content_loop(chars, i, acc) ==
    IF i > Len(chars) THEN acc
    ELSE IF chars[i] = "\""
    THEN content_loop(chars, run_end(chars, i + 1, {"\""}) + 1,
                      acc \o SubSeq(chars, i + 1, run_end(chars, i + 1, {"\""}) - 1))
    ELSE IF chars[i] = "[" /\ i + 1 <= Len(chars) /\ chars[i + 1] = ":"
    THEN content_nested(chars, nested_end(chars, i, 0), acc,
                        hiccup_to_html(SubSeq(chars, i, nested_end(chars, i, 0) - 1)))
    ELSE content_loop(chars, i + 1, acc)

parse_hiccup_content(text) == content_loop(trim(text), 1, <<>>)

\* hiccup_to_html: the element of the tag with its attributes and content
html_of_parts(hiccup, tag, attrs_html, inner) ==
    IF inner = Panic THEN Panic
    ELSE IF tag \in {<<"u", "l">>, <<"o", "l">>} /\ li_items(hiccup, 1) # <<>>
    THEN <<"<">> \o tag \o attrs_html \o <<">">> \o li_items(hiccup, 1) \o <<"<", "/">> \o tag \o <<">">>
    ELSE IF inner = <<>> /\ attrs_html = <<>> THEN <<"<">> \o tag \o <<"/", ">">>
    ELSE <<"<">> \o tag \o attrs_html \o <<">">> \o inner \o <<"<", "/">> \o tag \o <<">">>

\* hiccup_to_html: the attribute map of rest ends at index attr_end; with no closing
\* brace the slice rest[1..attr_end - 1] panics
html_of_attrs(hiccup, tag, rest, end) ==
    IF end = 0 THEN Panic
    ELSE html_of_parts(hiccup, tag, parse_hiccup_attrs(SubSeq(rest, 2, end - 1), 1),
                       parse_hiccup_content(from(rest, end + 1)))

html_of_rest(hiccup, tag, rest) ==
    IF starts_with(rest, <<"{">>) THEN html_of_attrs(hiccup, tag, rest, attr_end(rest, 1, 0))
    ELSE html_of_parts(hiccup, tag, <<>>, parse_hiccup_content(rest))

\* hiccup_to_html: the tag ends before index tag_end of after_bracket
html_of_tag(hiccup, after_bracket, tag_end) ==
    html_of_rest(hiccup, SubSeq(after_bracket, 1, tag_end - 1),
                 trim(trim_end_matches(from(after_bracket, tag_end), <<"]">>)))

html_of_trimmed(hiccup) ==
    IF ~starts_with(hiccup, <<"[", ":">>) THEN <<Backtick>> \o hiccup \o <<Backtick>>
    ELSE html_of_tag(hiccup, from(hiccup, 3), run_end(from(hiccup, 3), 1, WhiteSpace \cup {"]"}))

hiccup_to_html(hiccup) == html_of_trimmed(trim(hiccup))

is_block_element(html) ==
    \E tag \in { <<"<", "u", "l">>, <<"<", "o", "l">>, <<"<", "d", "i", "v">>, <<"<", "t", "a", "b", "l", "e">>, <<"<", "h", "1">>, <<"<", "h", "2">>, <<"<", "h", "3">>, <<"<", "h", "4">>,
                 <<"<", "b", "l", "o", "c", "k", "q", "u", "o", "t", "e">>, <<"<", "p", "r", "e">> } : starts_with(html, tag)

\* convert_hiccup_to_markdown: the literal is put out behind its indentation, with
\* a list marker unless it is a block element
hiccup_emit(st, indent, html, buffer) ==
    IF html = Panic THEN [st EXCEPT !.panicked = TRUE]
    ELSE [result |-> st.result \o indent \o (IF is_block_element(html) THEN <<>> ELSE <<"-", " ">>)
                         \o html \o <<"\n">>,
          in_multiline_hiccup |-> FALSE,
          hiccup_buffer |-> buffer,
          hiccup_indent |-> indent,
          panicked |-> FALSE]

\* a line starts a literal
hiccup_begin(st, indent, hiccup_start) ==
    IF bracket_count(hiccup_start) = 0
    THEN hiccup_emit(st, indent, hiccup_to_html(hiccup_start), st.hiccup_buffer)
    ELSE [st EXCEPT !.in_multiline_hiccup = TRUE, !.hiccup_buffer = hiccup_start,
                    !.hiccup_indent = indent]

\* a line is added to the literal
hiccup_continue(st, buffer) ==
    IF bracket_count(buffer) = 0
    THEN hiccup_emit(st, st.hiccup_indent, hiccup_to_html(buffer), <<>>)
    ELSE [st EXCEPT !.hiccup_buffer = buffer]

\* one line of the loop
hiccup_line(st, line, trimmed) ==
    IF ~st.in_multiline_hiccup /\ starts_with(trimmed, <<"-", " ", "[", ":">>)
    THEN hiccup_begin(st, SubSeq(line, 1, span_end(line, 1, WhiteSpace) - 1), from(trimmed, 3))
    ELSE IF ~st.in_multiline_hiccup /\ starts_with(trimmed, <<"[", ":">>)
    THEN hiccup_begin(st, <<>>, trimmed)
    ELSE IF st.in_multiline_hiccup
    THEN hiccup_continue(st, st.hiccup_buffer \o <<" ">> \o trimmed)
    ELSE [st EXCEPT !.result = @ \o line \o <<"\n">>]

RECURSIVE hiccup_loop(_, _, _)
hiccup_loop(ls, i, st) ==
    IF i > Len(ls) \/ st.panicked THEN st
    ELSE hiccup_loop(ls, i + 1, hiccup_line(st, ls[i], trim(ls[i])))

\* the literal that was not closed is put out, and the newline the text did not end
\* with is removed
hiccup_popped(text, out) ==
    IF out = Panic THEN Panic
    ELSE IF ~ends_with(text, <<"\n">>) /\ ends_with(out, <<"\n">>)
    THEN SubSeq(out, 1, Len(out) - 1)
    ELSE out

hiccup_unclosed(st, html) ==
    IF html = Panic THEN Panic
    ELSE st.result \o st.hiccup_indent \o <<"-", " ">> \o html \o <<"\n">>

hiccup_end(st) ==
    IF st.panicked THEN Panic
    ELSE IF st.hiccup_buffer # <<>> THEN hiccup_unclosed(st, hiccup_to_html(st.hiccup_buffer))
    ELSE st.result

convert_hiccup_to_markdown(text) ==
    hiccup_popped(text,
                  hiccup_end(hiccup_loop(lines(text), 1,
                                         [result |-> <<>>, in_multiline_hiccup |-> FALSE,
                                          hiccup_buffer |-> <<>>, hiccup_indent |-> <<>>,
                                          panicked |-> FALSE])))

(***************************************************************************)
(* The texts with hiccup literals explored.                                *)
(***************************************************************************)
HiccupLines ==
    { <<"t", "e", "x", "t">>,
      <<" ", " ", "-", " ", "[", ":", "h", "2", " ", "\"", "A", "\"", "]">>,
      <<"[", ":", "d", "i", "v", " ", "[", ":", "h", "3", " ", "\"", "B", "\"", "]">>,
      <<"[", ":", "u", "l", " ", "[", ":", "l", "i", " ", "\"", "x", "\"", "]", "[", ":", "l", "i", " ", "\"", "y", "\"", "]", "]", "]">>,
      <<"-", " ", "[", ":", "b", " ", "{", ":", "c", "l", "a", "s", "s", " ", "\"", "c", "\"", "}", " ", "\"", "C", "\"", "]", " ", "t", "a", "i", "l">>,
      <<"[", ":", "p", " ", "{", ":", "i", "d", " ", "\"", "u", "\"", "]">> }

HiccupContents == { join(ls, <<"\n">>) : ls \in SeqsUpTo(HiccupLines, MaxLines) }

InitHiccup ==
    /\ content \in HiccupContents
    /\ page_index = <<>>
    /\ pc = "idle"
    /\ link = <<>>
    /\ final_link = <<>>
    /\ parts = <<>>
    /\ result = <<>>
    /\ query_ast = <<>>
    /\ query_str = <<>>
    /\ results = <<>>
    /\ query_parts = <<>>
    /\ options = <<>>
    /\ sorted = <<>>
    /\ markdown = <<>>
    /\ NoRun

\* transform: the hiccup stage
ConvertHiccup ==
    /\ pc = "idle"
    /\ result' = convert_hiccup_to_markdown(content)
    /\ pc' = "hiccup"
    /\ UNCHANGED <<page_index, link, final_link, parts, content, queryVars, renderVars, runVars>>

NextHiccup == ConvertHiccup

SpecHiccup == InitHiccup /\ [][NextHiccup]_vars


\* the line starts a literal
starts_literal(line) ==
    \/ starts_with(trim(line), <<"[", ":">>)
    \/ starts_with(trim(line), <<"-", " ", "[", ":">>)

\* the last line of the literal that starts at line s: the first line at which the
\* brackets of the lines from s on are balanced, the last line of the text if none is
literal_last(ls, s) ==
    IF \E e \in s..Len(ls) : bracket_count(join(SubSeq(ls, s, e), <<" ">>)) = 0
    THEN CHOOSE e \in s..Len(ls) :
             /\ bracket_count(join(SubSeq(ls, s, e), <<" ">>)) = 0
             /\ \A d \in s..(e - 1) : bracket_count(join(SubSeq(ls, s, d), <<" ">>)) # 0
    ELSE Len(ls)

\* a literal starts at line s: the line begins one and lies in no literal before it
RECURSIVE is_literal_start(_, _)
is_literal_start(ls, s) ==
    /\ starts_literal(ls[s])
    /\ \A r \in 1..(s - 1) : is_literal_start(ls, r) => literal_last(ls, r) < s

\* the lines of the text that lie in no literal, in their order
lines_outside(ls) ==
    SelectSeq([k \in 1..Len(ls) |-> k],
              LAMBDA k : \A r \in 1..k : is_literal_start(ls, r) => literal_last(ls, r) < k)

\* an h2, h3 or list item with its text stands at index k of the text
item_at(text, k) ==
    /\ \/ at(text, k, <<"[", ":", "h", "2", " ", "\"">>)
       \/ at(text, k, <<"[", ":", "h", "3", " ", "\"">>)
       \/ at(text, k, <<"[", ":", "l", "i", " ", "\"">>)
    /\ run_end(text, k + 6, {"\""}) <= Len(text)

\* the element the item at index k is to give
item_html(text, k) ==
    <<"<">> \o SubSeq(text, k + 2, k + 3) \o <<">">>
        \o SubSeq(text, k + 6, run_end(text, k + 6, {"\""}) - 1)
        \o <<"<", "/">> \o SubSeq(text, k + 2, k + 3) \o <<">">>

\* the elements of the items of the text, from left to right
items_of(text) ==
    [n \in 1..Len(SelectSeq([k \in 1..Len(text) |-> k], LAMBDA k : item_at(text, k))) |->
        item_html(text, SelectSeq([k \in 1..Len(text) |-> k], LAMBDA k : item_at(text, k))[n])]

\* the elements stand in the text from index i on, one after the other
RECURSIVE stand_in_order(_, _, _, _)
stand_in_order(items, n, text, i) ==
    IF n > Len(items) THEN TRUE
    ELSE IF find_from(text, items[n], i) = 0 THEN FALSE
    ELSE stand_in_order(items, n + 1, text, find_from(text, items[n], i) + Len(items[n]))

\* the lines outside the literals are put out unchanged and in their order
outside_lines_kept ==
    in_order([n \in 1..Len(lines_outside(lines(content))) |->
                  lines(content)[lines_outside(lines(content))[n]]],
             lines_of(result))

\* C28: the lines before and after a hiccup literal are put out unchanged and in
\* order, and the literal is put out with its h2, h3 and list items in their order
\* from left to right
C28_LiteralEmittedWhole ==
    (pc = "hiccup" /\ result # Panic) =>
        /\ outside_lines_kept
        /\ stand_in_order(items_of(content), 1, result, 1)

\* the lines outside the literals alone
OutsideLinesKept == (pc = "hiccup" /\ result # Panic) => outside_lines_kept

\* the items of the literals that are balanced on their own line
ItemsOfOneLineLiteralsKept ==
    (/\ pc = "hiccup"
     /\ result # Panic
     /\ \A k \in 1..Len(lines(content)) : bracket_count(lines(content)[k]) = 0) =>
        stand_in_order(items_of(content), 1, result, 1)

\* the text that follows a literal on its line is put out
TextAfterLiteralKept ==
    (pc = "hiccup" /\ result # Panic /\ contains(content, <<" ", "t", "a", "i", "l">>)) => contains(result, <<"t", "a", "i", "l">>)


\* the hiccup stage returns a text for every literal
HiccupIsTotal == pc = "hiccup" => result # Panic

====
